---- MODULE Spec2Model ----
(***************************************************************************)
(* A model of the Kailua proof-request pipeline: the zkVM guest and its    *)
(* witness oracle, the proving backends, the host's proof cache, the       *)
(* validator's proof-request worker pool and the proof-request builders.   *)
(* Each subsystem has its own variables, actions and specification; the    *)
(* variables of the other subsystems stay at their idle values.            *)
(***************************************************************************)
EXTENDS Integers, Sequences, FiniteSets, TLC

(***************************************************************************)
(* Bounds of the model.                                                    *)
(***************************************************************************)
\* the largest number of shards of an oracle witness
MaxShards == 2
\* the largest number of proof files on disk before a proving request
MaxCachedFiles == 1
\* the largest number of messages sent on the request channel
MaxMessages == 2
\* the largest configured number of concurrent provers
MaxWorkers == 2
\* the largest number of tasks the workers re-enqueue
MaxRetries == 1
\* the largest deployment.proposal_output_count
MaxOutputCount == 2
\* the largest deployment.output_block_span
MaxSpan == 2
\* FIELD_ELEMENTS_PER_BLOB, scaled down
FieldElementsPerBlob == 4
\* the largest number of siblings registered before the fault builder runs
MaxSiblings == 2
\* the largest number of siblings other proposers register meanwhile
MaxOthers == 1
\* the largest L2 block number a proposal time is asked for
MaxHeight == 2
\* the largest L1 time
MaxTime == 8
\* u128::BITS, scaled down
Bits == 4
\* FE_ORDER_PO2, scaled down
FeOrderPo2 == 2
\* the largest number of calls made on a chain provider
MaxCalls == 2
\* the largest transaction count of the market wallet
MaxNonce == 2
\* the largest boundless_lookback
MaxLookback == 2
\* the largest number of stitched proofs
MaxProofs == 2
\* how far the configured segment limits lie from the default
SegmentSpread == 1

(***************************************************************************)
(* State.                                                                  *)
(***************************************************************************)
\* the zkVM guest
VARIABLES
    g_pc,          \* position of the guest's main
    g_frameOk,     \* whether the witness frame deserializes
    preimages,     \* witness.oracle_witness.preimages: a vector of shards
    shardStream,   \* what read_shard() yields for each deferred shard
    g_i,           \* index of the shard loading loop
    g_validated,   \* validate_preimages returned Ok
    g_served,      \* number of preimages the oracle has served
    g_journal,     \* the journal returned by run_stateless_client
    g_committed    \* journals written by env::commit_slice

guestVars == <<g_pc, g_frameOk, preimages, shardStream, g_i, g_validated,
               g_served, g_journal, g_committed>>

\* the proving client and its backends
VARIABLES
    p_pc,          \* position of the proving client
    p_market,      \* boundless.market is Some
    p_bonsai_env,  \* BONSAI_API_URL and BONSAI_API_KEY are set
    p_dev_mode,    \* risc0 dev mode
    p_prove_snark, \* Groth16 compression requested
    p_skip_await,  \* proving_args.skip_await_proof
    p_backend,     \* the backend the dispatch selected
    p_receipt,     \* the receipt or seal in hand
    p_result,      \* what the backend returned
    p_file,        \* the content of the proof file
    p_service,     \* what the backend has done so far
    p_wallet_nonce, \* the transaction count of the market wallet
    p_lookback,    \* args.boundless_lookback
    p_requests,    \* the market's submitted requests of the wallet, by nonce
    p_i,           \* index of the lookback loop
    p_examined,    \* the nonces the lookback has examined
    p_awaited      \* the nonce of the request whose fulfillment is awaited

proveVars == <<p_pc, p_market, p_bonsai_env, p_dev_mode, p_prove_snark,
               p_skip_await, p_backend, p_receipt, p_result, p_file,
               p_service, p_wallet_nonce, p_lookback, p_requests, p_i,
               p_examined, p_awaited>>

\* the host's compute_fpvm_proof
VARIABLES
    h_pc,             \* position of compute_fpvm_proof
    h_args,           \* the proving request (kona_cfg and precondition data)
    h_skip_preflight, \* args.skip_zeth_preflight
    h_files,          \* the proof files on disk
    h_name,           \* proof_file_name
    h_hit,            \* the exists check found the proof file
    h_tmp_dir,        \* a temporary directory was created
    h_preflight,      \* zeth_execution_preflight was run
    h_backend,        \* start_server_and_native_client was invoked
    h_result          \* what compute_fpvm_proof returned

hostVars == <<h_pc, h_args, h_skip_preflight, h_files, h_name, h_hit,
              h_tmp_dir, h_preflight, h_backend, h_result>>

\* two proof requests whose journals and file names are compared
VARIABLES
    n_req,      \* the two requests: environment and Proposal message
    n_journal,  \* the ProofJournal of each
    n_file,     \* the validator's proof_file_name of each
    n_host_file, \* the host's fpvm_proof_file_name of each
    n_done      \* the names were computed

nameVars == <<n_req, n_journal, n_file, n_host_file, n_done>>

\* the validator's handle_proof_requests and its worker pool
VARIABLES
    q_n,           \* args.num_concurrent_provers
    q_gen_pc,      \* position of handle_proof_requests
    q_req_chan,    \* messages in flight on channel.receiver
    q_req_closed,  \* the sending side of the request channel is gone
    q_env_log,     \* every message sent on the request channel, in order
    q_cur,         \* the Proposal message being processed
    q_task_chan,   \* the task channel: tasks enqueued and not yet taken
    q_task_closed, \* task_channel.0.close() was called
    q_worker,      \* the spawned handle_proving_tasks workers
    q_joined,      \* number of worker handles awaited
    q_next_eid,    \* number of sends on the task channel so far
    q_retries,     \* number of tasks the workers have re-enqueued
    q_received,    \* Proposal messages received by the task generator
    q_issued,      \* tasks sent by the task generator, in order
    q_delivered,   \* sends taken by a worker, in order of delivery
    q_late,        \* a task was taken after the task channel was closed
    q_completed    \* proposal indices proven, in order of completion

poolVars == <<q_n, q_gen_pc, q_req_chan, q_req_closed, q_env_log, q_cur,
              q_task_chan, q_task_closed, q_worker, q_joined, q_next_eid,
              q_retries, q_received, q_issued, q_delivered, q_late,
              q_completed>>

\* the validator's request_fault_proof and request_validity_proof
VARIABLES
    r_pc,        \* "start", "done", or "idle"
    r_deploy,    \* agent.deployment: proposal_output_count, output_block_span
    r_outputs,   \* agent.outputs: the output cache, block number -> root
    r_parent,    \* the parent proposal
    r_proposal,  \* the proposal a proof is requested for
    r_l1_head,   \* the l1_head argument
    r_kind,      \* which of the two functions ran
    r_channel,   \* messages sent on channel.sender
    r_result     \* what the function returned

requestVars == <<r_pc, r_deploy, r_outputs, r_parent, r_proposal, r_l1_head,
                 r_kind, r_channel, r_result>>

\* the fault builder, bin/cli/src/fault.rs
VARIABLES
    f_pc,             \* position of fault()
    f_args,           \* FaultArgs: fault_offset, fault_parent, fault_null
    f_chain,          \* what the contracts answer: parent_block_number,
                      \* proposal_output_count, output_block_span, games_count
    f_plan,           \* the values fault() computes before the fetches
    f_tasks,          \* the spawned fetch tasks and their results
    f_order,          \* the fetch tasks in the order they completed
    f_elements,       \* io_field_elements
    f_dupe_counter,   \* dupe_counter
    f_observed,       \* counters games() answered with a nonzero address
    f_extra_data,     \* the extra data the search loop broke with
    f_factory,        \* the games registered in the factory
    f_outcome         \* what became of the propose transaction

faultVars == <<f_pc, f_args, f_chain, f_plan, f_tasks, f_order, f_elements,
               f_dupe_counter, f_observed, f_extra_data, f_factory, f_outcome>>

\* SyncDeployment's proposal timing, bin/cli/src/sync/deployment.rs
VARIABLES
    d_deploy,   \* the SyncDeployment: genesis_time, block_time, proposal_gap
    d_block,    \* proposal_block_number
    d_time,     \* the L1 time, proposal_time of the calls
    d_checked,  \* the two functions were called at d_time
    d_allows,   \* what allows_proposal returned
    d_wait,     \* what time_to_propose returned
    d_first     \* the first time allows_proposal returned true, or -1

deployVars == <<d_deploy, d_block, d_time, d_checked, d_allows, d_wait,
                d_first>>

\* the blob mathematics of bin/cli/src/provider.rs
VARIABLES
    v_pc,         \* which function runs, and where it is
    v_index,      \* index
    v_order_po2,  \* order_po2
    v_once,       \* reverse_bits(index, order_po2)
    v_twice,      \* reverse_bits of that, with the same order
    v_blob,       \* the blob of blob_fe_proof
    v_opening,    \* what compute_kzg_proof returned
    v_result      \* what blob_fe_proof returned

providerVars == <<v_pc, v_index, v_order_po2, v_once, v_twice, v_blob,
                  v_opening, v_result>>

\* the oracle-backed L1 chain provider
VARIABLES
    c_pc,          \* position of the provider's caller
    c_l1_head,     \* the l1_head the provider is created with
    c_headers,     \* self.headers: sealed headers, the head first
    c_headers_map, \* self.headers_map: pairs of a hash and an index
    c_op,          \* the call in progress or last returned
    c_n,           \* the block_number of the call
    c_index,       \* header_index of the call
    c_fetch,       \* the hash header_by_hash is asked for
    c_ret,         \* what header_by_hash returned to the walk
    c_hints,       \* hints sent during the call
    c_reads,       \* preimages read during the call
    c_before,      \* the length of self.headers when the call began
    c_calls,       \* the number of calls made
    c_result       \* what the call returned

chainVars == <<c_pc, c_l1_head, c_headers, c_headers_map, c_op, c_n, c_index,
               c_fetch, c_ret, c_hints, c_reads, c_before, c_calls, c_result>>

\* the hand-over of stitched proofs to a prover
VARIABLES
    s_pc,          \* position of the loop over stitched_proofs
    s_backend,     \* whose loop it is
    s_force,       \* KAILUA_FORCE_RECURSION is set
    s_proofs,      \* stitched_proofs
    s_i,           \* the proofs consumed so far
    s_input,       \* indices of the proofs written as guest input, in order
    s_assumptions, \* indices of the proofs made assumptions, in order
    s_result,      \* how the loop ended
    s_segment_limit, \* ProvingArgs::segment_limit as configured
    s_env_po2      \* the segment limit set on the executor environment

stitchVars == <<s_pc, s_backend, s_force, s_proofs, s_i, s_input,
                s_assumptions, s_result, s_segment_limit, s_env_po2>>

\* the rkyv wrapper of the preimage store
VARIABLES
    a_pc,          \* position of the round trip
    a_store,       \* the PreimageVecStore that is serialized
    a_bytes,       \* the serialized store
    a_out,         \* the deserialized store
    a_result       \* how the round trip ended

archiveVars == <<a_pc, a_store, a_bytes, a_out, a_result>>

\* the composition of the proofs of a split task
VARIABLES
    k_pc,          \* position of the dispatcher and of the stitching guest
    k_children,    \* the ProveArgs of the child proofs, as collected
    k_sorted,      \* the child proofs in the order they are stitched
    k_i,           \* the children stitched so far
    k_journal      \* the boot info of the stitched journal

composeVars == <<k_pc, k_children, k_sorted, k_i, k_journal>>

\* a native run of the client
VARIABLES
    t_pc,          \* position in run_native_client
    t_boot,        \* the boot info the oracle holds
    t_computed,    \* real_output_hash as run_client returned it
    t_result       \* what run_native_client returned

nativeVars == <<t_pc, t_boot, t_computed, t_result>>

\* the payload preflight
VARIABLES
    y_pc,          \* position in run_payload_client
    y_boot,        \* boot_info
    y_kv,          \* the entries of the key-value store
    y_retries,     \* retries
    y_requests,    \* the debug_executionWitness requests made, in order
    y_witness,     \* execution_witness
    y_result,      \* what run_payload_client returned
    y_start        \* the claimed block number the call was given

payloadVars == <<y_pc, y_boot, y_kv, y_retries, y_requests, y_witness,
                 y_result, y_start>>

vars == <<guestVars, proveVars, hostVars, nameVars, poolVars, requestVars,
          faultVars, deployVars, providerVars, chainVars, stitchVars,
          archiveVars, composeVars, nativeVars, payloadVars>>

\* what the actions of one subsystem leave alone
notGuest == <<proveVars, hostVars, nameVars, poolVars, requestVars,
              faultVars, deployVars, providerVars, chainVars, stitchVars,
              archiveVars, composeVars, nativeVars, payloadVars>>
notProve == <<guestVars, hostVars, nameVars, poolVars, requestVars,
              faultVars, deployVars, providerVars, chainVars, stitchVars,
              archiveVars, composeVars, nativeVars, payloadVars>>
notHost == <<guestVars, proveVars, nameVars, poolVars, requestVars,
             faultVars, deployVars, providerVars, chainVars, stitchVars,
             archiveVars, composeVars, nativeVars, payloadVars>>
notName == <<guestVars, proveVars, hostVars, poolVars, requestVars,
             faultVars, deployVars, providerVars, chainVars, stitchVars,
             archiveVars, composeVars, nativeVars, payloadVars>>
notPool == <<guestVars, proveVars, hostVars, nameVars, requestVars,
             faultVars, deployVars, providerVars, chainVars, stitchVars,
             archiveVars, composeVars, nativeVars, payloadVars>>
notRequest == <<guestVars, proveVars, hostVars, nameVars, poolVars,
                faultVars, deployVars, providerVars, chainVars, stitchVars,
                archiveVars, composeVars, nativeVars, payloadVars>>
notFault == <<guestVars, proveVars, hostVars, nameVars, poolVars,
              requestVars, deployVars, providerVars, chainVars, stitchVars,
              archiveVars, composeVars, nativeVars, payloadVars>>
notDeploy == <<guestVars, proveVars, hostVars, nameVars, poolVars,
               requestVars, faultVars, providerVars, chainVars, stitchVars,
               archiveVars, composeVars, nativeVars, payloadVars>>
notProvider == <<guestVars, proveVars, hostVars, nameVars, poolVars,
                 requestVars, faultVars, deployVars, chainVars, stitchVars,
                 archiveVars, composeVars, nativeVars, payloadVars>>
notChain == <<guestVars, proveVars, hostVars, nameVars, poolVars,
              requestVars, faultVars, deployVars, providerVars, stitchVars,
              archiveVars, composeVars, nativeVars, payloadVars>>
notStitch == <<guestVars, proveVars, hostVars, nameVars, poolVars,
               requestVars, faultVars, deployVars, providerVars, chainVars,
               archiveVars, composeVars, nativeVars, payloadVars>>
notArchive == <<guestVars, proveVars, hostVars, nameVars, poolVars,
                requestVars, faultVars, deployVars, providerVars, chainVars,
                stitchVars, composeVars, nativeVars, payloadVars>>
notCompose == <<guestVars, proveVars, hostVars, nameVars, poolVars,
                requestVars, faultVars, deployVars, providerVars, chainVars,
                stitchVars, archiveVars, nativeVars, payloadVars>>
notNative == <<guestVars, proveVars, hostVars, nameVars, poolVars,
               requestVars, faultVars, deployVars, providerVars, chainVars,
               stitchVars, archiveVars, composeVars, payloadVars>>
notPayload == <<guestVars, proveVars, hostVars, nameVars, poolVars,
                requestVars, faultVars, deployVars, providerVars, chainVars,
                stitchVars, archiveVars, composeVars, nativeVars>>

(***************************************************************************)
(* Shared helpers.                                                         *)
(***************************************************************************)
\* all sequences over S with a length in lo..hi
SeqsOf(S, lo, hi) == UNION {[1..n -> S] : n \in lo..hi}

\* B256 values; 0 is B256::ZERO
B256 == 0..2

\* keccak256 of a packed sequence of small fields: the fields are the digits
\* of the digest, so that distinct packings have distinct digests
RECURSIVE Keccak256(_)
Keccak256(packed) ==
    IF packed = <<>> THEN 1 ELSE Head(packed) + 4 * Keccak256(Tail(packed))

\* PreconditionValidationData::precondition_hash of optional data; None maps
\* to the default (zero) hash
NoData == [kind |-> "None"]
PreconditionHash(data) == IF data = NoData THEN 0 ELSE data.hash

\* u64::saturating_sub
SaturatingSub(a, b) == IF a > b THEN a - b ELSE 0

RECURSIVE SumLens(_)
SumLens(ss) == IF ss = <<>> THEN 0 ELSE Len(Head(ss)) + SumLens(Tail(ss))

(***************************************************************************)
(* GUEST: build/risczero/fpvm/src/main.rs and                              *)
(* crates/common/src/client/stateless.rs                                   *)
(***************************************************************************)

\* PreimageKeyType tags; the same bytes under two tags are two keys
KeyTypes == {"Keccak256", "Sha256"}

\* the digest of a value under a key type (a small stand-in for the two
\* hash functions: they disagree on every value)
HashOf(tag, v) == IF tag = "Keccak256" THEN v + 1 ELSE 2 - v

\* an entry of a shard: key (tag, digest) and the preimage bytes
Entry(tag, digest, v) == [tag |-> tag, digest |-> digest, value |-> v]

GoodKeccak == Entry("Keccak256", HashOf("Keccak256", 0), 0)
GoodSha == Entry("Sha256", HashOf("Sha256", 1), 1)
\* bytes that hash to the key's digest under the other tag only
BadTag == Entry("Sha256", HashOf("Keccak256", 0), 0)

ShardPool == {<<>>, <<GoodKeccak>>, <<GoodKeccak, GoodSha>>, <<GoodSha, BadTag>>}

NoJournal == [kind |-> "none"]
Journal(zeroClaim) == [kind |-> "journal", claimed_is_zero |-> zeroClaim]

\* WitnessOracle::preimage_count
PreimageCount(store) == SumLens(store)

EntryValid(e) == e.digest = HashOf(e.tag, e.value)

\* WitnessOracle::validate_preimages: every entry's bytes hash to its key
\* under the key's type tag
ValidatePreimages(store) ==
    \A i \in 1..Len(store) : \A j \in 1..Len(store[i]) : EntryValid(store[i][j])

GuestInit ==
    /\ g_pc = "read_frame"
    /\ g_frameOk \in BOOLEAN
    /\ preimages \in SeqsOf(ShardPool, 1, MaxShards)
    /\ shardStream \in [{i \in 1..Len(preimages) : preimages[i] = <<>>} -> ShardPool]
    /\ g_i = 1
    /\ g_validated = FALSE
    /\ g_served = 0
    /\ g_journal = NoJournal
    /\ g_committed = <<>>

GuestIdle ==
    /\ g_pc = "idle"
    /\ g_frameOk = TRUE
    /\ preimages = <<>>
    /\ shardStream = <<>>
    /\ g_i = 1
    /\ g_validated = FALSE
    /\ g_served = 0
    /\ g_journal = NoJournal
    /\ g_committed = <<>>

\* main: env::read_frame and rkyv::from_bytes(..).expect(..)
GuestReadFrame ==
    /\ g_pc = "read_frame"
    /\ g_pc' = IF g_frameOk THEN "load_shards" ELSE "panic_deserialize"
    /\ UNCHANGED <<g_frameOk, preimages, shardStream, g_i, g_validated,
                   g_served, g_journal, g_committed>>
    /\ UNCHANGED notGuest

\* main: one iteration of the loop over the shards; a non-empty shard is
\* skipped, an empty one is replaced by read_shard()
GuestLoadShard ==
    /\ g_pc = "load_shards"
    /\ g_i <= Len(preimages)
    /\ preimages' = IF preimages[g_i] # <<>>
                    THEN preimages
                    ELSE [preimages EXCEPT ![g_i] = shardStream[g_i]]
    /\ g_i' = g_i + 1
    /\ UNCHANGED <<g_pc, g_frameOk, shardStream, g_validated, g_served,
                   g_journal, g_committed>>
    /\ UNCHANGED notGuest

\* main: the loop is over, run_stateless_client is called
GuestShardsLoaded ==
    /\ g_pc = "load_shards"
    /\ g_i > Len(preimages)
    /\ g_pc' = "validate"
    /\ UNCHANGED <<g_frameOk, preimages, shardStream, g_i, g_validated,
                   g_served, g_journal, g_committed>>
    /\ UNCHANGED notGuest

\* (mutant) the result of validate_preimages is dropped instead of expected
RunStatelessClientIgnoresValidation ==
    /\ g_pc = "validate"
    /\ g_pc' = "stitching"
    /\ g_validated' = ValidatePreimages(preimages)
    /\ UNCHANGED <<g_frameOk, preimages, shardStream, g_i, g_served,
                   g_journal, g_committed>>
    /\ UNCHANGED notGuest

\* run_stateless_client: validate_preimages().expect(..), then the oracle is
\* handed to the stitching client
RunStatelessClientValidate ==
    /\ g_pc = "validate"
    /\ IF ValidatePreimages(preimages)
       THEN g_pc' = "stitching" /\ g_validated' = TRUE
       ELSE g_pc' = "panic_validate" /\ g_validated' = FALSE
    /\ UNCHANGED <<g_frameOk, preimages, shardStream, g_i, g_served,
                   g_journal, g_committed>>
    /\ UNCHANGED notGuest

\* run_stitching_client reads one more preimage from the oracle
StitchingServe ==
    /\ g_pc = "stitching"
    /\ g_served < PreimageCount(preimages)
    /\ g_served' = g_served + 1
    /\ UNCHANGED <<g_pc, g_frameOk, preimages, shardStream, g_i, g_validated,
                   g_journal, g_committed>>
    /\ UNCHANGED notGuest

\* run_stitching_client returns the journal; its claimed root is zero when
\* the data as of the L1 head is insufficient
StitchingReturn ==
    /\ g_pc = "stitching"
    /\ \E z \in BOOLEAN : g_journal' = Journal(z)
    /\ g_pc' = "check_claim"
    /\ UNCHANGED <<g_frameOk, preimages, shardStream, g_i, g_validated,
                   g_served, g_committed>>
    /\ UNCHANGED notGuest

\* main: assert!(!claimed_l2_output_root.is_zero()), then commit_slice
GuestCommit ==
    /\ g_pc = "check_claim"
    /\ IF g_journal.claimed_is_zero
       THEN g_pc' = "panic_premature" /\ UNCHANGED g_committed
       ELSE g_pc' = "done" /\ g_committed' = Append(g_committed, g_journal)
    /\ UNCHANGED <<g_frameOk, preimages, shardStream, g_i, g_validated,
                   g_served, g_journal>>
    /\ UNCHANGED notGuest

(***************************************************************************)
(* PROVING BACKENDS: crates/prover/src/risczero/zkvm.rs (local zkVM),      *)
(* bin/client/src/bonsai.rs (remote service), bin/client/src/boundless.rs  *)
(* (market) and the dispatch and persistence of bin/client/src/lib.rs      *)
(***************************************************************************)

NoProof == [kind |-> "none"]
\* a receipt or seal; valid: verify against KAILUA_FPVM_ID would succeed;
\* verified: verify against KAILUA_FPVM_ID was called on it and succeeded
Receipt(kind, valid) == [kind |-> kind, valid |-> valid, verified |-> FALSE]

Pending == [tag |-> "pending"]
Ok(proof) == [tag |-> "Ok", proof |-> proof]
Err(kind) == [tag |-> "Err", error |-> kind]

\* Receipt::verify(KAILUA_FPVM_ID)
Verify(r) == r.valid
Verified(r) == [r EXCEPT !.verified = TRUE]

\* should_use_bonsai
ShouldUseBonsai == ~p_dev_mode /\ p_bonsai_env

ProveInit ==
    /\ p_pc = "dispatch"
    /\ p_market \in BOOLEAN
    /\ p_bonsai_env \in BOOLEAN
    /\ p_dev_mode \in BOOLEAN
    /\ p_prove_snark \in BOOLEAN
    /\ p_skip_await \in BOOLEAN
    /\ IF p_market
       THEN /\ p_wallet_nonce \in 0..MaxNonce
            /\ p_lookback \in 0..MaxLookback
            /\ p_requests \in [0..MaxNonce -> {"none", "same", "other"}]
       ELSE /\ p_wallet_nonce = 0
            /\ p_lookback = 0
            /\ p_requests = [n \in 0..MaxNonce |-> "none"]
    /\ p_backend = "none"
    /\ p_receipt = NoProof
    /\ p_result = Pending
    /\ p_file = NoProof
    /\ p_service = {}
    /\ p_i = 0
    /\ p_examined = {}
    /\ p_awaited = -1

ProveIdle ==
    /\ p_pc = "idle"
    /\ p_market = FALSE
    /\ p_bonsai_env = FALSE
    /\ p_dev_mode = FALSE
    /\ p_prove_snark = FALSE
    /\ p_skip_await = FALSE
    /\ p_wallet_nonce = 0
    /\ p_lookback = 0
    /\ p_requests = <<>>
    /\ p_backend = "none"
    /\ p_receipt = NoProof
    /\ p_result = Pending
    /\ p_file = NoProof
    /\ p_service = {}
    /\ p_i = 0
    /\ p_examined = {}
    /\ p_awaited = -1

ProveCfg == <<p_market, p_bonsai_env, p_dev_mode, p_prove_snark, p_skip_await,
              p_wallet_nonce, p_lookback, p_requests>>

\* the market lookback's position and findings
ProveWalk == <<p_i, p_examined, p_awaited>>

\* the backend returns r to its caller
Return(r) ==
    /\ p_result' = r
    /\ p_pc' = "returned"

\* a step of a backend is recorded
Record(events) == p_service' = p_service \cup events

\* run_client: the market when configured, else the remote service when its
\* environment is set and dev mode is off, else the local zkVM
Dispatch ==
    /\ p_pc = "dispatch"
    /\ p_backend' = IF p_market THEN "market"
                    ELSE IF ShouldUseBonsai THEN "remote" ELSE "local"
    /\ p_pc' = IF p_market THEN "boundless_start"
               ELSE IF ShouldUseBonsai THEN "bonsai_upload" ELSE "zkvm_start"
    /\ UNCHANGED <<ProveCfg, p_receipt, p_result, p_file, p_service, ProveWalk>>
    /\ UNCHANGED notProve

(* ------------------------------ local zkVM ----------------------------- *)
\* (mutant) skip_await_proof is looked at only after the task was spawned
ZkvmStartLate ==
    /\ p_pc = "zkvm_start"
    /\ Record({"spawn_blocking"})
    /\ IF p_skip_await
       THEN Return(Err("NotAwaitingProof"))
       ELSE p_pc' = "zkvm_prove" /\ UNCHANGED p_result
    /\ UNCHANGED <<ProveCfg, p_backend, p_receipt, p_file, ProveWalk>>
    /\ UNCHANGED notProve

\* run_zkvm_client: skip_await_proof returns NotAwaitingProof at once;
\* otherwise the blocking proving task is spawned
ZkvmStart ==
    /\ p_pc = "zkvm_start"
    /\ IF p_skip_await
       THEN /\ Return(Err("NotAwaitingProof"))
            /\ UNCHANGED p_service
       ELSE /\ p_pc' = "zkvm_prove"
            /\ Record({"spawn_blocking"})
            /\ UNCHANGED p_result
    /\ UNCHANGED <<ProveCfg, p_backend, p_receipt, p_file, ProveWalk>>
    /\ UNCHANGED notProve

\* run_zkvm_client: the blocking task cannot be joined
ZkvmJoinError ==
    /\ p_pc = "zkvm_prove"
    /\ Record({"join_failed"})
    /\ Return(Err("OtherError"))
    /\ UNCHANGED <<ProveCfg, p_backend, p_receipt, p_file, ProveWalk>>
    /\ UNCHANGED notProve

\* run_zkvm_client: build_zkvm_env or prove_with_opts fails
ZkvmProveError ==
    /\ p_pc = "zkvm_prove"
    /\ Record({"prove_failed"})
    /\ Return(Err("ExecutionError"))
    /\ UNCHANGED <<ProveCfg, p_backend, p_receipt, p_file, ProveWalk>>
    /\ UNCHANGED notProve

\* run_zkvm_client: prove_with_opts yields a receipt
ZkvmProve ==
    /\ p_pc = "zkvm_prove"
    /\ \E valid \in BOOLEAN :
          p_receipt' = Receipt(IF p_prove_snark THEN "groth16" ELSE "succinct", valid)
    /\ Record({"proved"})
    /\ p_pc' = "zkvm_verify"
    /\ UNCHANGED <<ProveCfg, p_backend, p_result, p_file, ProveWalk>>
    /\ UNCHANGED notProve

\* run_zkvm_client: receipt.verify(image.0), then Ok(receipt)
ZkvmVerify ==
    /\ p_pc = "zkvm_verify"
    /\ IF Verify(p_receipt)
       THEN /\ p_receipt' = Verified(p_receipt)
            /\ Record({"verified"})
            /\ Return(Ok(Verified(p_receipt)))
       ELSE /\ Return(Err("OtherError"))
            /\ Record({"verify_failed"})
            /\ UNCHANGED p_receipt
    /\ UNCHANGED <<ProveCfg, p_backend, p_file, ProveWalk>>
    /\ UNCHANGED notProve

(* ---------------------------- remote service --------------------------- *)
\* run_bonsai_client: a call to the service fails (client construction, an
\* upload, session creation, the poll interval, a status poll, a missing
\* receipt or stats, a download, a deserialization)
BonsaiCallFails ==
    /\ p_pc \in {"bonsai_upload", "bonsai_upload_input", "bonsai_session",
                 "bonsai_poll", "bonsai_download", "bonsai_snark",
                 "bonsai_snark_poll", "bonsai_snark_download"}
    /\ Return(Err("OtherError"))
    /\ UNCHANGED <<ProveCfg, p_backend, p_receipt, p_file, p_service, ProveWalk>>
    /\ UNCHANGED notProve

\* run_bonsai_client: upload_img, keyed by the image id
BonsaiUploadImg ==
    /\ p_pc = "bonsai_upload"
    /\ Record({"upload_img"})
    /\ p_pc' = "bonsai_upload_input"
    /\ UNCHANGED <<ProveCfg, p_backend, p_receipt, p_result, p_file, ProveWalk>>
    /\ UNCHANGED notProve

\* run_bonsai_client: upload_input
BonsaiUploadInput ==
    /\ p_pc = "bonsai_upload_input"
    /\ Record({"upload_input"})
    /\ p_pc' = "bonsai_session"
    /\ UNCHANGED <<ProveCfg, p_backend, p_receipt, p_result, p_file, ProveWalk>>
    /\ UNCHANGED notProve

\* run_bonsai_client: create_session_with_limit
BonsaiCreateSession ==
    /\ p_pc = "bonsai_session"
    /\ Record({"create_session"})
    /\ p_pc' = "bonsai_poll"
    /\ UNCHANGED <<ProveCfg, p_backend, p_receipt, p_result, p_file, ProveWalk>>
    /\ UNCHANGED notProve

\* the statuses a session reports
SessionStatuses == {"RUNNING", "SUCCEEDED", "FAILED", "ABORTED"}

\* what a status poll of a session showed
StatusSeen(session, status) ==
    IF session = "stark"
    THEN CASE status = "RUNNING" -> "stark_running"
           [] status = "SUCCEEDED" -> "stark_succeeded"
           [] OTHER -> "stark_failed"
    ELSE CASE status = "RUNNING" -> "snark_running"
           [] status = "SUCCEEDED" -> "snark_succeeded"
           [] OTHER -> "snark_failed"

\* (mutant) every status but RUNNING goes on to the download
BonsaiPollAnyEnd ==
    /\ p_pc = "bonsai_poll"
    /\ \E status \in SessionStatuses :
          /\ Record({StatusSeen("stark", status)})
          /\ CASE status = "RUNNING" -> UNCHANGED <<p_pc, p_result>>
               [] OTHER -> p_pc' = "bonsai_download" /\ UNCHANGED p_result
    /\ UNCHANGED <<ProveCfg, p_backend, p_receipt, p_file, ProveWalk>>
    /\ UNCHANGED notProve

\* run_bonsai_client: one status poll of the proving session
BonsaiPoll ==
    /\ p_pc = "bonsai_poll"
    /\ \E status \in SessionStatuses :
          /\ Record({StatusSeen("stark", status)})
          /\ CASE status = "RUNNING" -> UNCHANGED <<p_pc, p_result>>
               [] status = "SUCCEEDED" -> p_pc' = "bonsai_download" /\ UNCHANGED p_result
               [] OTHER -> Return(Err("OtherError"))
    /\ UNCHANGED <<ProveCfg, p_backend, p_receipt, p_file, ProveWalk>>
    /\ UNCHANGED notProve

\* run_bonsai_client: download the receipt, verify it, and return it unless
\* a SNARK was requested
BonsaiDownloadVerify ==
    /\ p_pc = "bonsai_download"
    /\ \E valid \in BOOLEAN :
          LET receipt == Receipt("succinct", valid) IN
          IF ~Verify(receipt)
          THEN /\ Return(Err("OtherError"))
               /\ Record({"download"})
               /\ p_receipt' = receipt
          ELSE /\ p_receipt' = Verified(receipt)
               /\ Record({"download", "verify"})
               /\ IF ~p_prove_snark
                  THEN Return(Ok(Verified(receipt)))
                  ELSE p_pc' = "bonsai_snark" /\ UNCHANGED p_result
    /\ UNCHANGED <<ProveCfg, p_backend, p_file, ProveWalk>>
    /\ UNCHANGED notProve

\* run_bonsai_client: create_snark
BonsaiCreateSnark ==
    /\ p_pc = "bonsai_snark"
    /\ Record({"create_snark"})
    /\ p_pc' = "bonsai_snark_poll"
    /\ UNCHANGED <<ProveCfg, p_backend, p_receipt, p_result, p_file, ProveWalk>>
    /\ UNCHANGED notProve

\* run_bonsai_client: one status poll of the SNARK session
BonsaiSnarkPoll ==
    /\ p_pc = "bonsai_snark_poll"
    /\ \E status \in SessionStatuses :
          /\ Record({StatusSeen("snark", status)})
          /\ CASE status = "RUNNING" -> UNCHANGED <<p_pc, p_result>>
               [] status = "SUCCEEDED" -> p_pc' = "bonsai_snark_download" /\ UNCHANGED p_result
               [] OTHER -> Return(Err("OtherError"))
    /\ UNCHANGED <<ProveCfg, p_backend, p_receipt, p_file, ProveWalk>>
    /\ UNCHANGED notProve

\* (mutant) the Groth16 receipt is returned as downloaded
BonsaiSnarkDownloadNoVerify ==
    /\ p_pc = "bonsai_snark_download"
    /\ \E valid \in BOOLEAN :
          /\ p_receipt' = Receipt("groth16", valid)
          /\ Return(Ok(Receipt("groth16", valid)))
    /\ Record({"snark_download"})
    /\ UNCHANGED <<ProveCfg, p_backend, p_file, ProveWalk>>
    /\ UNCHANGED notProve

\* run_bonsai_client: download the Groth16 receipt, verify it, return it
BonsaiSnarkDownloadVerify ==
    /\ p_pc = "bonsai_snark_download"
    /\ \E valid \in BOOLEAN :
          LET receipt == Receipt("groth16", valid) IN
          IF ~Verify(receipt)
          THEN /\ Return(Err("OtherError"))
               /\ Record({"snark_download"})
               /\ p_receipt' = receipt
          ELSE /\ p_receipt' = Verified(receipt)
               /\ Record({"snark_download", "snark_verify"})
               /\ Return(Ok(Verified(receipt)))
    /\ UNCHANGED <<ProveCfg, p_backend, p_file, ProveWalk>>
    /\ UNCHANGED notProve

(* -------------------------------- market ------------------------------- *)
\* run_boundless_client: a call fails (client construction, image_info, the
\* wallet nonce, the preflight, an upload, the submission, the fulfillment)
BoundlessCallFails ==
    /\ p_pc \in {"boundless_start", "boundless_lookback", "boundless_upload",
                 "boundless_submit", "boundless_wait"}
    /\ p_pc = "boundless_lookback" => p_i = 0
    /\ Return(Err("anyhow"))
    /\ UNCHANGED <<ProveCfg, p_backend, p_receipt, p_file, p_service, ProveWalk>>
    /\ UNCHANGED notProve

\* run_boundless_client: build the client; in dev mode return a fake seal
\* against the set verifier's image info
BoundlessStart ==
    /\ p_pc = "boundless_start"
    /\ IF p_dev_mode
       THEN /\ p_receipt' = Receipt("seal", FALSE)
            /\ Return(Ok(Receipt("seal", FALSE)))
       ELSE /\ p_pc' = "boundless_lookback"
            /\ UNCHANGED <<p_receipt, p_result>>
    /\ UNCHANGED <<ProveCfg, p_backend, p_file, p_service, ProveWalk>>
    /\ UNCHANGED notProve

\* a nonce the lookback examined and what get_submitted_request gave for it
Examined(nonce, found) == [nonce |-> nonce, found |-> found]

\* (mutant) any submitted request that is found is awaited
BoundlessLookbackAnyRequest ==
    /\ p_pc = "boundless_lookback"
    /\ IF p_i >= p_lookback \/ p_i > p_wallet_nonce
       THEN /\ p_pc' = "boundless_upload"
            /\ UNCHANGED ProveWalk
       ELSE LET nonce == SaturatingSub(p_wallet_nonce, p_i + 1) IN
            \E get_ok \in BOOLEAN :
               LET found == IF get_ok THEN p_requests[nonce] ELSE "none" IN
               /\ p_examined' = p_examined \cup {Examined(nonce, found)}
               /\ IF found # "none"
                  THEN /\ p_awaited' = nonce
                       /\ p_pc' = "boundless_wait"
                       /\ UNCHANGED p_i
                  ELSE /\ p_i' = p_i + 1
                       /\ UNCHANGED <<p_pc, p_awaited>>
    /\ UNCHANGED <<ProveCfg, p_backend, p_receipt, p_result, p_file, p_service>>
    /\ UNCHANGED notProve

\* run_boundless_client: one turn of the lookback loop. The loop ends after
\* boundless_lookback turns or when i exceeds the wallet nonce; a turn asks
\* the market for the request of nonce - (i + 1), saturating at zero, takes
\* an error for no request, skips a request with other requirements and
\* goes to await one with the same requirements
BoundlessLookback ==
    /\ p_pc = "boundless_lookback"
    /\ IF p_i >= p_lookback \/ p_i > p_wallet_nonce
       THEN /\ p_pc' = "boundless_upload"
            /\ UNCHANGED ProveWalk
       ELSE LET nonce == SaturatingSub(p_wallet_nonce, p_i + 1) IN
            \E get_ok \in BOOLEAN :
               LET found == IF get_ok THEN p_requests[nonce] ELSE "none" IN
               /\ p_examined' = p_examined \cup {Examined(nonce, found)}
               /\ IF found = "same"
                  THEN /\ p_awaited' = nonce
                       /\ p_pc' = "boundless_wait"
                       /\ UNCHANGED p_i
                  ELSE /\ p_i' = p_i + 1
                       /\ UNCHANGED <<p_pc, p_awaited>>
    /\ UNCHANGED <<ProveCfg, p_backend, p_receipt, p_result, p_file, p_service>>
    /\ UNCHANGED notProve

\* run_boundless_client: the preflight execution and the uploads of the
\* image and of the input
BoundlessUpload ==
    /\ p_pc = "boundless_upload"
    /\ \E done \in {{"preflight"}, {"preflight", "upload_image"},
                    {"preflight", "upload_image", "upload_input"}} :
          /\ Record(done)
          /\ IF "upload_input" \in done
             THEN p_pc' = "boundless_submit" /\ UNCHANGED p_result
             ELSE Return(Err("anyhow"))
    /\ UNCHANGED <<ProveCfg, p_backend, p_receipt, p_file, ProveWalk>>
    /\ UNCHANGED notProve

\* run_boundless_client: request_id_from_nonce and submit_request
BoundlessSubmit ==
    /\ p_pc = "boundless_submit"
    /\ Record({"submit_request"})
    /\ p_awaited' = p_wallet_nonce
    /\ p_pc' = "boundless_wait"
    /\ UNCHANGED <<ProveCfg, p_backend, p_receipt, p_result, p_file, p_i, p_examined>>
    /\ UNCHANGED notProve

\* run_boundless_client: wait_for_request_fulfillment yields a seal, which
\* is returned as it is
BoundlessFulfilled ==
    /\ p_pc = "boundless_wait"
    /\ \E valid \in BOOLEAN :
          /\ p_receipt' = Receipt("seal", valid)
          /\ Return(Ok(Receipt("seal", valid)))
    /\ Record({"fulfilled"})
    /\ UNCHANGED <<ProveCfg, p_backend, p_file, ProveWalk>>
    /\ UNCHANGED notProve

(* ------------------------------ persistence ---------------------------- *)
\* run_client: an Ok proof is serialized into the proof file; an error is
\* propagated and no file is written
PersistProof ==
    /\ p_pc = "returned"
    /\ IF p_result.tag = "Ok"
       THEN p_file' = p_result.proof
       ELSE UNCHANGED p_file
    /\ p_pc' = "done"
    /\ UNCHANGED <<ProveCfg, p_backend, p_receipt, p_result, p_service, ProveWalk>>
    /\ UNCHANGED notProve


(***************************************************************************)
(* HOST: bin/host/src/prove.rs                                             *)
(***************************************************************************)
\* kailua_client::proof::fpvm_proof_file_name: the digest of the packed
\* fields, with the .prf extension
FpvmProofFileName(precondition_hash, l1_head, claimed_l2_output_root, claimed_l2_block_number, agreed_l2_output_root) ==
    [ext |-> "prf",
     digest |-> Keccak256(<<precondition_hash, l1_head, claimed_l2_output_root,
                            claimed_l2_block_number, agreed_l2_output_root>>)]

\* the precondition data of a request: none, or validity data
ValidityData(h) == [kind |-> "Validity", hash |-> h]

\* the proving requests of the host
HostArgs ==
    [precondition_data : {NoData, ValidityData(1)},
     l1_head : {1},
     agreed_l2_output_root : {1},
     claimed_l2_output_root : {1, 2},
     claimed_l2_block_number : {1, 2}]

\* the file name compute_fpvm_proof derives from its arguments
HostFileName(a) ==
    FpvmProofFileName(PreconditionHash(a.precondition_data), a.l1_head,
                      a.claimed_l2_output_root, a.claimed_l2_block_number,
                      a.agreed_l2_output_root)

\* a proof file: its name and which run wrote its content
ProofFile(name, origin) == [name |-> name, origin |-> origin]

FileExists(name) == \E f \in h_files : f.name = name
FileAt(name) == CHOOSE f \in h_files : f.name = name

HostInit ==
    /\ h_pc = "fetch_precondition"
    /\ h_args \in HostArgs
    /\ h_skip_preflight \in BOOLEAN
    /\ \E names \in SUBSET {HostFileName(a) : a \in HostArgs} :
          /\ Cardinality(names) <= MaxCachedFiles
          /\ h_files = {ProofFile(n, "cached") : n \in names}
    /\ h_name = "none"
    /\ h_hit = FALSE
    /\ h_tmp_dir = FALSE
    /\ h_preflight = FALSE
    /\ h_backend = FALSE
    /\ h_result = Pending

HostIdle ==
    /\ h_pc = "idle"
    /\ h_args = "none"
    /\ h_skip_preflight = FALSE
    /\ h_files = {}
    /\ h_name = "none"
    /\ h_hit = FALSE
    /\ h_tmp_dir = FALSE
    /\ h_preflight = FALSE
    /\ h_backend = FALSE
    /\ h_result = Pending

HostReturn(r) ==
    /\ h_result' = r
    /\ h_pc' = "returned"

\* compute_fpvm_proof: a fallible step before the proof is read fails
\* (fetch_precondition_data, the providers and the transaction count,
\* tempdir, generate_rollup_config, the preflight, the proving)
HostStepFails ==
    /\ h_pc \in {"fetch_precondition", "count_transactions", "tempdir",
                 "rollup_config", "preflight", "prove"}
    /\ h_preflight' = (h_preflight \/ h_pc = "preflight")
    /\ h_backend' = (h_backend \/ h_pc = "prove")
    /\ \E kind \in {"OtherError", "ExecutionError", "NotAwaitingProof"} :
          /\ h_pc # "prove" => kind = "OtherError"
          /\ HostReturn(Err(kind))
    /\ UNCHANGED <<h_args, h_skip_preflight, h_files, h_name, h_hit, h_tmp_dir>>
    /\ UNCHANGED notHost

\* compute_fpvm_proof: fetch_precondition_data
HostFetchPrecondition ==
    /\ h_pc = "fetch_precondition"
    /\ h_pc' = "count_transactions"
    /\ UNCHANGED <<h_args, h_skip_preflight, h_files, h_name, h_hit,
                   h_tmp_dir, h_preflight, h_backend, h_result>>
    /\ UNCHANGED notHost

\* compute_fpvm_proof: count the transactions of the block range
HostCountTransactions ==
    /\ h_pc = "count_transactions"
    /\ h_pc' = "check_cache"
    /\ UNCHANGED <<h_args, h_skip_preflight, h_files, h_name, h_hit,
                   h_tmp_dir, h_preflight, h_backend, h_result>>
    /\ UNCHANGED notHost

\* (mutant) the proof is computed whether or not its file exists
HostCheckCacheIgnored ==
    /\ h_pc = "check_cache"
    /\ h_name' = HostFileName(h_args)
    /\ h_hit' = FileExists(HostFileName(h_args))
    /\ h_pc' = "tempdir"
    /\ UNCHANGED <<h_args, h_skip_preflight, h_files, h_tmp_dir, h_preflight,
                   h_backend, h_result>>
    /\ UNCHANGED notHost

\* compute_fpvm_proof: the file name, and whether that file exists
HostCheckCache ==
    /\ h_pc = "check_cache"
    /\ h_name' = HostFileName(h_args)
    /\ h_hit' = FileExists(HostFileName(h_args))
    /\ h_pc' = IF FileExists(HostFileName(h_args)) THEN "read_proof" ELSE "tempdir"
    /\ UNCHANGED <<h_args, h_skip_preflight, h_files, h_tmp_dir, h_preflight,
                   h_backend, h_result>>
    /\ UNCHANGED notHost

\* compute_fpvm_proof: tempdir()
HostTempDir ==
    /\ h_pc = "tempdir"
    /\ h_tmp_dir' = TRUE
    /\ h_pc' = "rollup_config"
    /\ UNCHANGED <<h_args, h_skip_preflight, h_files, h_name, h_hit,
                   h_preflight, h_backend, h_result>>
    /\ UNCHANGED notHost

\* compute_fpvm_proof: generate_rollup_config
HostRollupConfig ==
    /\ h_pc = "rollup_config"
    /\ h_pc' = IF h_skip_preflight THEN "prove" ELSE "preflight"
    /\ UNCHANGED <<h_args, h_skip_preflight, h_files, h_name, h_hit,
                   h_tmp_dir, h_preflight, h_backend, h_result>>
    /\ UNCHANGED notHost

\* compute_fpvm_proof: zeth_execution_preflight
HostPreflight ==
    /\ h_pc = "preflight"
    /\ h_preflight' = TRUE
    /\ h_pc' = "prove"
    /\ UNCHANGED <<h_args, h_skip_preflight, h_files, h_name, h_hit,
                   h_tmp_dir, h_backend, h_result>>
    /\ UNCHANGED notHost

\* compute_fpvm_proof: start_server_and_native_client; the native client
\* writes the proof under the file name of the proof's journal (run_client)
HostProve ==
    /\ h_pc = "prove"
    /\ h_backend' = TRUE
    /\ h_files' = {f \in h_files : f.name # HostFileName(h_args)}
                      \cup {ProofFile(HostFileName(h_args), "fresh")}
    /\ h_pc' = "read_proof"
    /\ UNCHANGED <<h_args, h_skip_preflight, h_name, h_hit, h_tmp_dir,
                   h_preflight, h_result>>
    /\ UNCHANGED notHost

\* compute_fpvm_proof: read_proof_file(proof_file_name)
HostReadProofFile ==
    /\ h_pc = "read_proof"
    /\ \E readable \in BOOLEAN :
          IF readable /\ FileExists(h_name)
          THEN HostReturn(Ok(FileAt(h_name)))
          ELSE HostReturn(Err("OtherError"))
    /\ UNCHANGED <<h_args, h_skip_preflight, h_files, h_name, h_hit,
                   h_tmp_dir, h_preflight, h_backend>>
    /\ UNCHANGED notHost

(***************************************************************************)
(* PROOF FILE NAMES: crates/validator/src/requests.rs (the journal and the *)
(* file name of a proof request) and bin/host/src/prove.rs                 *)
(***************************************************************************)
\* a Proposal message together with what handle_proof_requests fixed at its
\* start (payout recipient, config hash, image id)
ProofRequests ==
    [payout_recipient : 0..1,
     config_hash : 0..1,
     fpvm_image_id : 0..1,
     index : 0..1,
     precondition_validation_data : {NoData, ValidityData(1)},
     l1_head : 0..1,
     agreed_l2_head_hash : 0..1,
     agreed_l2_output_root : 0..1,
     claimed_l2_block_number : 0..1,
     claimed_l2_output_root : 0..1]

\* the requests the first of the two is drawn from
BaseRequests == {r \in ProofRequests :
                    /\ r.payout_recipient = r.config_hash
                    /\ r.config_hash = r.fpvm_image_id
                    /\ r.fpvm_image_id = r.index
                    /\ r.index = r.l1_head
                    /\ r.l1_head = r.agreed_l2_head_hash
                    /\ r.agreed_l2_head_hash = r.agreed_l2_output_root
                    /\ r.agreed_l2_output_root = r.claimed_l2_block_number
                    /\ r.claimed_l2_block_number = r.claimed_l2_output_root}

\* (mutant) the agreed head hash is taken for the agreed output root
ProofJournalOfHeadHash(r) ==
    [payout_recipient |-> r.payout_recipient,
     precondition_hash |-> PreconditionHash(r.precondition_validation_data),
     l1_head |-> r.l1_head,
     agreed_l2_output_root |-> r.agreed_l2_head_hash,
     claimed_l2_output_root |-> r.claimed_l2_output_root,
     claimed_l2_block_number |-> r.claimed_l2_block_number,
     config_hash |-> r.config_hash,
     fpvm_image_id |-> r.fpvm_image_id]

\* handle_proof_requests: the ProofJournal of a Proposal message
ProofJournalOf(r) ==
    [payout_recipient |-> r.payout_recipient,
     precondition_hash |-> PreconditionHash(r.precondition_validation_data),
     l1_head |-> r.l1_head,
     agreed_l2_output_root |-> r.agreed_l2_output_root,
     claimed_l2_output_root |-> r.claimed_l2_output_root,
     claimed_l2_block_number |-> r.claimed_l2_block_number,
     config_hash |-> r.config_hash,
     fpvm_image_id |-> r.fpvm_image_id]

\* ProofJournal::encode_packed: the fields in their fixed order
EncodePacked(j) ==
    <<j.payout_recipient, j.precondition_hash, j.l1_head,
      j.agreed_l2_output_root, j.claimed_l2_output_root,
      j.claimed_l2_block_number, j.config_hash, j.fpvm_image_id>>

\* kailua_prover::proof::proof_file_name: the digest of the packed journal,
\* with the .prf extension
ProofFileName(j) == [ext |-> "prf", digest |-> Keccak256(EncodePacked(j))]

\* the arguments handle_proof_requests hands to the host for a message
ProveArgsOf(r) ==
    [precondition_data |-> r.precondition_validation_data,
     l1_head |-> r.l1_head,
     agreed_l2_head_hash |-> r.agreed_l2_head_hash,
     agreed_l2_output_root |-> r.agreed_l2_output_root,
     claimed_l2_output_root |-> r.claimed_l2_output_root,
     claimed_l2_block_number |-> r.claimed_l2_block_number]

NameInit ==
    /\ n_req \in [1..2 -> ProofRequests]
    /\ n_req[1] \in BaseRequests
    /\ n_journal = <<>>
    /\ n_file = <<>>
    /\ n_host_file = <<>>
    /\ n_done = FALSE

NameIdle ==
    /\ n_req = <<>>
    /\ n_journal = <<>>
    /\ n_file = <<>>
    /\ n_host_file = <<>>
    /\ n_done = FALSE

\* handle_proof_requests computes the journal and the file name of each
\* request; compute_fpvm_proof computes the host's file name of each
ComputeFileNames ==
    /\ ~n_done
    /\ n_journal' = [k \in 1..2 |-> ProofJournalOf(n_req[k])]
    /\ n_file' = [k \in 1..2 |-> ProofFileName(ProofJournalOf(n_req[k]))]
    /\ n_host_file' = [k \in 1..2 |-> HostFileName(ProveArgsOf(n_req[k]))]
    /\ n_done' = TRUE
    /\ UNCHANGED n_req
    /\ UNCHANGED notName

(***************************************************************************)
(* WORKER POOL: crates/validator/src/requests.rs, handle_proof_requests    *)
(***************************************************************************)
\* a Message::Proposal with proposal index i, as handle_proof_requests sees
\* it together with the values it fixed at its start
ProposalMessage(i) ==
    [kind |-> "Proposal",
     payout_recipient |-> 1, config_hash |-> 1, fpvm_image_id |-> 1,
     index |-> i,
     precondition_validation_data |-> NoData,
     l1_head |-> 1,
     agreed_l2_head_hash |-> 1,
     agreed_l2_output_root |-> 1,
     claimed_l2_block_number |-> i,
     claimed_l2_output_root |-> i]

\* the other variant of Message
ProofMessage == [kind |-> "Proof"]

\* what may arrive on the request channel
PoolMessages == {ProposalMessage(i) : i \in 1..2} \cup {ProofMessage}

\* (mutant) every task carries the index of the first proposal
TaskOfFirstIndex(m) ==
    [proposal_index |-> 1,
     prove_args |-> ProveArgsOf(m),
     proof_file_name |-> ProofFileName(ProofJournalOf(m))]

\* the Task handle_proof_requests builds for a Proposal message
TaskOf(m) ==
    [proposal_index |-> m.index,
     prove_args |-> ProveArgsOf(m),
     proof_file_name |-> ProofFileName(ProofJournalOf(m))]

NoTask == [eid |-> 0]
\* a send on the task channel: the task and the number of the send
Item(eid, task) == [eid |-> eid, task |-> task]

Worker(pc, item) == [pc |-> pc, item |-> item]

\* (mutant) one worker more than configured
SpawnCountOneMore(n) == n + 1

\* handle_proof_requests: the number of workers the loop 0..n spawns
SpawnCount(n) == n

PoolInit ==
    /\ q_n \in 1..MaxWorkers
    /\ q_gen_pc = "spawn"
    /\ q_req_chan = <<>>
    /\ q_req_closed = FALSE
    /\ q_env_log = <<>>
    /\ q_cur = ProofMessage
    /\ q_task_chan = <<>>
    /\ q_task_closed = FALSE
    /\ q_worker = <<>>
    /\ q_joined = 0
    /\ q_next_eid = 1
    /\ q_retries = 0
    /\ q_received = <<>>
    /\ q_issued = <<>>
    /\ q_delivered = <<>>
    /\ q_late = FALSE
    /\ q_completed = <<>>

PoolIdle ==
    /\ q_n = 0
    /\ q_gen_pc = "idle"
    /\ q_req_chan = <<>>
    /\ q_req_closed = FALSE
    /\ q_env_log = <<>>
    /\ q_cur = ProofMessage
    /\ q_task_chan = <<>>
    /\ q_task_closed = FALSE
    /\ q_worker = <<>>
    /\ q_joined = 0
    /\ q_next_eid = 1
    /\ q_retries = 0
    /\ q_received = <<>>
    /\ q_issued = <<>>
    /\ q_delivered = <<>>
    /\ q_late = FALSE
    /\ q_completed = <<>>

(* ------------------- the other end of the request channel -------------- *)
\* the proposal handler sends a message on the request channel
EnvSend ==
    /\ ~q_req_closed
    /\ Len(q_env_log) < MaxMessages
    /\ \E m \in PoolMessages :
          /\ q_req_chan' = Append(q_req_chan, m)
          /\ q_env_log' = Append(q_env_log, m)
    /\ UNCHANGED <<q_n, q_gen_pc, q_req_closed, q_cur, q_task_chan,
                   q_task_closed, q_worker, q_joined, q_next_eid, q_retries,
                   q_received, q_issued, q_delivered, q_late, q_completed>>
    /\ UNCHANGED notPool

\* the proposal handler ends and drops its sender
EnvClose ==
    /\ ~q_req_closed
    /\ q_req_closed' = TRUE
    /\ UNCHANGED <<q_n, q_gen_pc, q_req_chan, q_env_log, q_cur, q_task_chan,
                   q_task_closed, q_worker, q_joined, q_next_eid, q_retries,
                   q_received, q_issued, q_delivered, q_late, q_completed>>
    /\ UNCHANGED notPool

(* --------------------------- the task generator ------------------------ *)
\* handle_proof_requests: one iteration of the loop that spawns the workers
SpawnWorker ==
    /\ q_gen_pc = "spawn"
    /\ Len(q_worker) < SpawnCount(q_n)
    /\ q_worker' = Append(q_worker, Worker("recv", NoTask))
    /\ UNCHANGED <<q_n, q_gen_pc, q_req_chan, q_req_closed, q_env_log, q_cur,
                   q_task_chan, q_task_closed, q_joined, q_next_eid,
                   q_retries, q_received, q_issued, q_delivered, q_late,
                   q_completed>>
    /\ UNCHANGED notPool

\* handle_proof_requests: the pool is complete, the generator loop starts
SpawnDone ==
    /\ q_gen_pc = "spawn"
    /\ Len(q_worker) >= SpawnCount(q_n)
    /\ q_gen_pc' = "recv"
    /\ UNCHANGED <<q_n, q_req_chan, q_req_closed, q_env_log, q_cur,
                   q_task_chan, q_task_closed, q_worker, q_joined,
                   q_next_eid, q_retries, q_received, q_issued, q_delivered,
                   q_late, q_completed>>
    /\ UNCHANGED notPool

\* handle_proof_requests: channel.receiver.recv() yields a message; a
\* Proposal is processed, anything else ends the loop
GenRecv ==
    /\ q_gen_pc = "recv"
    /\ q_req_chan # <<>>
    /\ q_req_chan' = Tail(q_req_chan)
    /\ IF Head(q_req_chan).kind = "Proposal"
       THEN /\ q_cur' = Head(q_req_chan)
            /\ q_received' = Append(q_received, Head(q_req_chan))
            /\ q_gen_pc' = "send"
       ELSE /\ q_gen_pc' = "close"
            /\ UNCHANGED <<q_cur, q_received>>
    /\ UNCHANGED <<q_n, q_req_closed, q_env_log, q_task_chan, q_task_closed,
                   q_worker, q_joined, q_next_eid, q_retries, q_issued,
                   q_delivered, q_late, q_completed>>
    /\ UNCHANGED notPool

\* handle_proof_requests: recv() yields None, the request channel is closed
GenRecvClosed ==
    /\ q_gen_pc = "recv"
    /\ q_req_chan = <<>>
    /\ q_req_closed
    /\ q_gen_pc' = "close"
    /\ UNCHANGED <<q_n, q_req_chan, q_req_closed, q_env_log, q_cur,
                   q_task_chan, q_task_closed, q_worker, q_joined,
                   q_next_eid, q_retries, q_received, q_issued, q_delivered,
                   q_late, q_completed>>
    /\ UNCHANGED notPool

\* (mutant) a task channel of capacity one: the send waits while it is full
GenSendBounded ==
    /\ q_gen_pc = "send"
    /\ q_task_closed \/ Len(q_task_chan) < 1
    /\ IF q_task_closed
       THEN /\ q_gen_pc' = "failed"
            /\ UNCHANGED <<q_task_chan, q_next_eid, q_issued>>
       ELSE /\ q_task_chan' = Append(q_task_chan, Item(q_next_eid, TaskOf(q_cur)))
            /\ q_next_eid' = q_next_eid + 1
            /\ q_issued' = Append(q_issued, Item(q_next_eid, TaskOf(q_cur)))
            /\ q_gen_pc' = "recv"
    /\ UNCHANGED <<q_n, q_req_chan, q_req_closed, q_env_log, q_cur,
                   q_task_closed, q_worker, q_joined, q_retries, q_received,
                   q_delivered, q_late, q_completed>>
    /\ UNCHANGED notPool

\* handle_proof_requests: the task of the message is sent on the task
\* channel, which is unbounded: the send completes whatever the queue holds
GenSend ==
    /\ q_gen_pc = "send"
    /\ IF q_task_closed
       THEN /\ q_gen_pc' = "failed"
            /\ UNCHANGED <<q_task_chan, q_next_eid, q_issued>>
       ELSE /\ q_task_chan' = Append(q_task_chan, Item(q_next_eid, TaskOf(q_cur)))
            /\ q_next_eid' = q_next_eid + 1
            /\ q_issued' = Append(q_issued, Item(q_next_eid, TaskOf(q_cur)))
            /\ q_gen_pc' = "recv"
    /\ UNCHANGED <<q_n, q_req_chan, q_req_closed, q_env_log, q_cur,
                   q_task_closed, q_worker, q_joined, q_retries, q_received,
                   q_delivered, q_late, q_completed>>
    /\ UNCHANGED notPool

\* handle_proof_requests: task_channel.0.close()
GenClose ==
    /\ q_gen_pc = "close"
    /\ q_task_closed' = TRUE
    /\ q_gen_pc' = "join"
    /\ UNCHANGED <<q_n, q_req_chan, q_req_closed, q_env_log, q_cur,
                   q_task_chan, q_worker, q_joined, q_next_eid, q_retries,
                   q_received, q_issued, q_delivered, q_late, q_completed>>
    /\ UNCHANGED notPool

\* (mutant) the handles are dropped without waiting for the workers
GenJoinDetached ==
    /\ q_gen_pc = "join"
    /\ q_joined < Len(q_worker)
    /\ q_joined' = q_joined + 1
    /\ UNCHANGED <<q_n, q_gen_pc, q_req_chan, q_req_closed, q_env_log, q_cur,
                   q_task_chan, q_task_closed, q_worker, q_next_eid,
                   q_retries, q_received, q_issued, q_delivered, q_late,
                   q_completed>>
    /\ UNCHANGED notPool

\* handle_proof_requests: handler.await of the next worker, which has ended
GenJoin ==
    /\ q_gen_pc = "join"
    /\ q_joined < Len(q_worker)
    /\ q_worker[q_joined + 1].pc = "exited"
    /\ q_joined' = q_joined + 1
    /\ UNCHANGED <<q_n, q_gen_pc, q_req_chan, q_req_closed, q_env_log, q_cur,
                   q_task_chan, q_task_closed, q_worker, q_next_eid,
                   q_retries, q_received, q_issued, q_delivered, q_late,
                   q_completed>>
    /\ UNCHANGED notPool

\* handle_proof_requests: every handle was awaited, the function returns
GenReturn ==
    /\ q_gen_pc = "join"
    /\ q_joined = Len(q_worker)
    /\ q_gen_pc' = "returned"
    /\ UNCHANGED <<q_n, q_req_chan, q_req_closed, q_env_log, q_cur,
                   q_task_chan, q_task_closed, q_worker, q_joined,
                   q_next_eid, q_retries, q_received, q_issued, q_delivered,
                   q_late, q_completed>>
    /\ UNCHANGED notPool

(* ------------------------------ the workers ---------------------------- *)
\* handle_proving_tasks: a worker waiting on the task channel takes the
\* oldest task; a closed channel still hands out what it holds
WorkerRecv(w) ==
    /\ q_worker[w].pc = "recv"
    /\ q_task_chan # <<>>
    /\ q_worker' = [q_worker EXCEPT ![w] = Worker("proving", Head(q_task_chan))]
    /\ q_task_chan' = Tail(q_task_chan)
    /\ q_delivered' = Append(q_delivered, Head(q_task_chan).eid)
    /\ q_late' = (q_late \/ q_task_closed)
    /\ UNCHANGED <<q_n, q_gen_pc, q_req_chan, q_req_closed, q_env_log, q_cur,
                   q_task_closed, q_joined, q_next_eid, q_retries,
                   q_received, q_issued, q_completed>>
    /\ UNCHANGED notPool

\* handle_proving_tasks: the task channel is closed and empty, the worker
\* ends
WorkerExit(w) ==
    /\ q_worker[w].pc = "recv"
    /\ q_task_chan = <<>>
    /\ q_task_closed
    /\ q_worker' = [q_worker EXCEPT ![w] = Worker("exited", NoTask)]
    /\ UNCHANGED <<q_n, q_gen_pc, q_req_chan, q_req_closed, q_env_log, q_cur,
                   q_task_chan, q_task_closed, q_joined, q_next_eid,
                   q_retries, q_received, q_issued, q_delivered, q_late,
                   q_completed>>
    /\ UNCHANGED notPool

\* handle_proving_tasks: the proof was computed and is reported
WorkerProved(w) ==
    /\ q_worker[w].pc = "proving"
    /\ q_completed' = Append(q_completed, q_worker[w].item.task.proposal_index)
    /\ q_worker' = [q_worker EXCEPT ![w] = Worker("recv", NoTask)]
    /\ UNCHANGED <<q_n, q_gen_pc, q_req_chan, q_req_closed, q_env_log, q_cur,
                   q_task_chan, q_task_closed, q_joined, q_next_eid,
                   q_retries, q_received, q_issued, q_delivered, q_late>>
    /\ UNCHANGED notPool

\* handle_proving_tasks: proving failed; the error is logged and the worker
\* goes on; the task is sent again when the task channel is still open
WorkerFailed(w) ==
    /\ q_worker[w].pc = "proving"
    /\ q_worker' = [q_worker EXCEPT ![w] = Worker("recv", NoTask)]
    /\ \E retry \in BOOLEAN :
          IF retry /\ ~q_task_closed /\ q_retries < MaxRetries
          THEN /\ q_task_chan' = Append(q_task_chan,
                                        Item(q_next_eid, q_worker[w].item.task))
               /\ q_next_eid' = q_next_eid + 1
               /\ q_retries' = q_retries + 1
          ELSE UNCHANGED <<q_task_chan, q_next_eid, q_retries>>
    /\ UNCHANGED <<q_n, q_gen_pc, q_req_chan, q_req_closed, q_env_log, q_cur,
                   q_task_closed, q_joined, q_received, q_issued,
                   q_delivered, q_late, q_completed>>
    /\ UNCHANGED notPool

(***************************************************************************)
(* PROOF REQUEST BUILDER: crates/validator/src/requests.rs,                *)
(* request_fault_proof and request_validity_proof                          *)
(***************************************************************************)
OutputRoots == 0..2

\* the output root of the canonical L2 chain at a block number
Canon(b) == b % 3

\* the L1 and L2 chains as the providers serve them
L1Hash(n) == 10 + n
L1Number(hash) == hash - 10
L1Block(n) ==
    [hash |-> L1Hash(n), number |-> n, parent_hash |-> L1Hash(n) - 1,
     timestamp |-> 100 + 12 * n]
L2Hash(n) == 20 + n

\* provider.rs get_next_block: the block whose number follows that of the
\* block with the given hash
GetNextBlock(parent_hash) == L1Block(L1Number(parent_hash) + 1)

\* the (blob hash, blob) lists a proposal may carry; a blob's index is its
\* position in its L1 block, not its position in the list
Blob(hash, index) == [hash |-> hash, blob |-> [index |-> index]]
BlobLists == {<<>>, <<Blob(7, 3)>>, <<Blob(8, 2), Blob(7, 0)>>}

\* the block number of the i-th output of a proposal on a parent
OutputHeight(parent, deploy, i) ==
    parent.output_block_number + deploy.output_block_span * i

\* Proposal::fault and Fault::divergence_point: the positions at which the
\* proposal's outputs disagree with the canonical ones, and the first one
Divergences(parent, proposal, deploy) ==
    {i \in 0..(deploy.proposal_output_count - 1) :
        proposal.outputs[i + 1] # Canon(OutputHeight(parent, deploy, i + 1))}

HasFault(parent, proposal, deploy) ==
    Divergences(parent, proposal, deploy) # {}

DivergencePoint(parent, proposal, deploy) ==
    CHOOSE i \in Divergences(parent, proposal, deploy) :
        \A j \in Divergences(parent, proposal, deploy) : i <= j

Deployments ==
    [proposal_output_count : 1..MaxOutputCount, output_block_span : 1..MaxSpan]

RequestInit ==
    /\ r_pc = "start"
    /\ r_deploy \in Deployments
    /\ r_parent \in [index : {1}, output_block_number : 0..1, output_root : 0..1]
    /\ \E outs \in [1..r_deploy.proposal_output_count -> OutputRoots],
          blobs \in BlobLists :
          /\ r_deploy.proposal_output_count > 1 => blobs # <<>>
          /\ r_proposal =
                [index |-> 2,
                 l1_head |-> L1Hash(0),
                 output_block_number |->
                     OutputHeight(r_parent, r_deploy, r_deploy.proposal_output_count),
                 output_root |-> outs[r_deploy.proposal_output_count],
                 outputs |-> outs,
                 io_blobs |-> blobs]
    /\ \E cached \in SUBSET {OutputHeight(r_parent, r_deploy, i) :
                               i \in 0..r_deploy.proposal_output_count} :
          r_outputs = [b \in cached |-> Canon(b)]
    /\ r_l1_head = L1Hash(2)
    /\ r_kind = "none"
    /\ r_channel = <<>>
    /\ r_result = Pending

RequestIdle ==
    /\ r_pc = "idle"
    /\ r_deploy = [proposal_output_count |-> 1, output_block_span |-> 1]
    /\ r_outputs = <<>>
    /\ r_parent = [index |-> 0]
    /\ r_proposal = [index |-> 0]
    /\ r_l1_head = 0
    /\ r_kind = "none"
    /\ r_channel = <<>>
    /\ r_result = Pending

\* (mutant) the claimed root is the proposal's own claim
FaultMessageProposalClaim(parent, proposal, deploy, outputs, l1_head) ==
    [kind |-> "Proposal",
     index |-> proposal.index,
     precondition_validation_data |-> NoData,
     l1_head |-> l1_head,
     agreed_l2_head_hash |->
         L2Hash(OutputHeight(parent, deploy, DivergencePoint(parent, proposal, deploy))),
     agreed_l2_output_root |->
         outputs[OutputHeight(parent, deploy, DivergencePoint(parent, proposal, deploy))],
     claimed_l2_block_number |->
         OutputHeight(parent, deploy, DivergencePoint(parent, proposal, deploy) + 1),
     claimed_l2_output_root |->
         proposal.outputs[DivergencePoint(parent, proposal, deploy) + 1]]

\* request_fault_proof: the message it sends
FaultMessage(parent, proposal, deploy, outputs, l1_head) ==
    LET divergence_point == DivergencePoint(parent, proposal, deploy)
        agreed_l2_head_number ==
            parent.output_block_number + deploy.output_block_span * divergence_point
        claimed_l2_block_number ==
            agreed_l2_head_number + deploy.output_block_span
    IN  [kind |-> "Proposal",
         index |-> proposal.index,
         precondition_validation_data |-> NoData,
         l1_head |-> l1_head,
         agreed_l2_head_hash |-> L2Hash(agreed_l2_head_number),
         agreed_l2_output_root |-> outputs[agreed_l2_head_number],
         claimed_l2_block_number |-> claimed_l2_block_number,
         claimed_l2_output_root |-> outputs[claimed_l2_block_number]]

\* request_fault_proof
RequestFaultProof ==
    /\ r_pc = "start"
    /\ r_pc' = "done"
    /\ r_kind' = "fault"
    /\ \E rpc_ok, send_ok \in BOOLEAN :
          IF ~HasFault(r_parent, r_proposal, r_deploy)
          THEN /\ r_result' = Err("does not diverge")
               /\ UNCHANGED r_channel
          ELSE LET d == DivergencePoint(r_parent, r_proposal, r_deploy)
                   agreed == OutputHeight(r_parent, r_deploy, d)
                   claimed == agreed + r_deploy.output_block_span
               IN  IF ~rpc_ok
                   THEN /\ r_result' = Err("get_block_by_number")
                        /\ UNCHANGED r_channel
                   ELSE IF agreed \notin DOMAIN r_outputs
                   THEN /\ r_result' = Err("agreed root not in memory")
                        /\ UNCHANGED r_channel
                   ELSE IF claimed \notin DOMAIN r_outputs
                   THEN /\ r_result' = Err("claimed root not in memory")
                        /\ UNCHANGED r_channel
                   ELSE IF ~send_ok
                   THEN /\ r_result' = Err("send")
                        /\ UNCHANGED r_channel
                   ELSE /\ r_channel' =
                              Append(r_channel,
                                     FaultMessage(r_parent, r_proposal, r_deploy,
                                                  r_outputs, r_l1_head))
                        /\ r_result' = Ok("unit")
    /\ UNCHANGED <<r_deploy, r_outputs, r_parent, r_proposal, r_l1_head>>
    /\ UNCHANGED notRequest

\* (mutant) each blob is paired with its position in the list
BlobFetchRequestByPosition(proposal, k) ==
    [block_ref |-> GetNextBlock(proposal.l1_head),
     blob_hash |-> [index |-> k - 1, hash |-> proposal.io_blobs[k].hash]]

\* request_validity_proof: the BlobFetchRequest of the k-th blob
BlobFetchRequest(proposal, k) ==
    [block_ref |-> GetNextBlock(proposal.l1_head),
     blob_hash |-> [index |-> proposal.io_blobs[k].blob.index,
                    hash |-> proposal.io_blobs[k].hash]]

\* request_validity_proof: precondition_validation_data
ValidityPrecondition(parent, proposal, deploy) ==
    IF deploy.proposal_output_count > 1
    THEN [kind |-> "Validity",
          proposal_l2_head_number |-> parent.output_block_number,
          proposal_output_count |-> deploy.proposal_output_count,
          output_block_span |-> deploy.output_block_span,
          blob_hashes |-> [k \in 1..Len(proposal.io_blobs) |->
                              BlobFetchRequest(proposal, k)]]
    ELSE NoData

\* request_validity_proof: the message it sends
ValidityMessage(parent, proposal, deploy, l1_head) ==
    [kind |-> "Proposal",
     index |-> proposal.index,
     precondition_validation_data |-> ValidityPrecondition(parent, proposal, deploy),
     l1_head |-> l1_head,
     agreed_l2_head_hash |-> L2Hash(parent.output_block_number),
     agreed_l2_output_root |-> parent.output_root,
     claimed_l2_block_number |-> proposal.output_block_number,
     claimed_l2_output_root |-> proposal.output_root]

\* request_validity_proof
RequestValidityProof ==
    /\ r_pc = "start"
    /\ r_pc' = "done"
    /\ r_kind' = "validity"
    /\ \E l1_ok, l2_ok, send_ok \in BOOLEAN :
          IF r_deploy.proposal_output_count > 1 /\ ~l1_ok
          THEN /\ r_result' = Err("block")
               /\ UNCHANGED r_channel
          ELSE IF ~l2_ok
          THEN /\ r_result' = Err("get_block_by_number")
               /\ UNCHANGED r_channel
          ELSE IF ~send_ok
          THEN /\ r_result' = Err("send")
               /\ UNCHANGED r_channel
          ELSE /\ r_channel' =
                     Append(r_channel,
                            ValidityMessage(r_parent, r_proposal, r_deploy, r_l1_head))
               /\ r_result' = Ok("unit")
    /\ UNCHANGED <<r_deploy, r_outputs, r_parent, r_proposal, r_l1_head>>
    /\ UNCHANGED notRequest

(***************************************************************************)
(* FAULT BUILDER: bin/cli/src/fault.rs, fault                              *)
(***************************************************************************)
\* the canonical output root the op-node serves at a block
OutputAtBlock(b) == 100 + b

\* kailua_common::blobs::hash_to_fe: the canonical reduction of a 32-byte
\* value into the scalar field
HashToFe(h) == h % 193

\* abi_encode_packed of a u64: its eight bytes, most significant first
RECURSIVE BigEndian(_, _)
BigEndian(n, len) ==
    IF len = 0 THEN <<>> ELSE Append(BigEndian(n \div 256, len - 1), n % 256)

\* (mutant) the eight bytes least significant first
RECURSIVE LittleEndian(_, _)
LittleEndian(n, len) ==
    IF len = 0 THEN <<>> ELSE <<n % 256>> \o LittleEndian(n \div 256, len - 1)

ExtraDataLittleEndian(proposed_block_number, fault_parent, dupe_counter) ==
    LittleEndian(proposed_block_number, 8) \o LittleEndian(fault_parent, 8)
        \o LittleEndian(dupe_counter, 8)

\* fault: the extra data of a proposal
ExtraData(proposed_block_number, fault_parent, dupe_counter) ==
    BigEndian(proposed_block_number, 8) \o BigEndian(fault_parent, 8)
        \o BigEndian(dupe_counter, 8)

\* DisputeGameFactory::games: the address registered for a root and extra
\* data, or the zero address
Games(factory, root, extra_data) ==
    IF \E g \in factory : g.root = root /\ g.extra_data = extra_data
    THEN (CHOOSE g \in factory : g.root = root /\ g.extra_data = extra_data).address
    ELSE 0

\* the game a successful propose registers: a fresh nonzero address
Game(factory, root, extra_data, by) ==
    [root |-> root, extra_data |-> extra_data,
     address |-> Cardinality(factory) + 1, by |-> by]

\* fault: the values computed before the fetch tasks are spawned
FaultyBlockNumber(chain, args) ==
    chain.parent_block_number + args.fault_offset * chain.output_block_span

FaultyRootClaim(chain, args) ==
    IF args.fault_null THEN 0 ELSE chain.games_count

ProposedBlockNumber(chain) ==
    chain.parent_block_number
        + chain.proposal_output_count * chain.output_block_span

ProposedOutputRoot(chain, args) ==
    IF ProposedBlockNumber(chain) = FaultyBlockNumber(chain, args)
    THEN FaultyRootClaim(chain, args)
    ELSE OutputAtBlock(ProposedBlockNumber(chain))

\* fault: is_output_fault compares the faulty block number with
\* proposal_block_count
IsOutputFault(chain, args) ==
    FaultyBlockNumber(chain, args)
        <= chain.proposal_output_count * chain.output_block_span

NormalizedFaultBlockNumber(chain, args) ==
    FaultyBlockNumber(chain, args)
        - (IF ~IsOutputFault(chain, args) THEN 1 ELSE 0) * chain.output_block_span

Plan(chain, args) ==
    [faulty_block_number |-> FaultyBlockNumber(chain, args),
     faulty_root_claim |-> FaultyRootClaim(chain, args),
     proposed_block_number |-> ProposedBlockNumber(chain),
     proposed_output_root |-> ProposedOutputRoot(chain, args),
     is_output_fault |-> IsOutputFault(chain, args),
     normalized_fault_block_number |-> NormalizedFaultBlockNumber(chain, args)]

NoPlan == [proposed_block_number |-> 0, proposed_output_root |-> 0]

\* fault: what the i-th fetch task computes when its fetch succeeds
FieldElement(i, chain, plan) ==
    LET io_block_number == chain.parent_block_number + i * chain.output_block_span
    IN  IF io_block_number = plan.normalized_fault_block_number
        THEN HashToFe(plan.faulty_root_claim)
        ELSE IF io_block_number < plan.proposed_block_number
        THEN HashToFe(OutputAtBlock(io_block_number))
        ELSE HashToFe(0)

\* whether the i-th fetch task asks the op-node for an output
Fetches(i, chain, plan) ==
    LET io_block_number == chain.parent_block_number + i * chain.output_block_span
    IN  /\ io_block_number # plan.normalized_fault_block_number
        /\ io_block_number < plan.proposed_block_number

\* (mutant) the results in the order the tasks completed
JoinAllByCompletion(tasks, order) == [k \in 1..Len(order) |-> tasks[order[k]]]

\* join_all: the results in the order of the handles
JoinAll(tasks, order) == tasks

\* the filter_map over the results: the field elements of the tasks that
\* succeeded, in order
RECURSIVE CollectOk(_)
CollectOk(results) ==
    IF results = <<>> THEN <<>>
    ELSE IF Head(results).tag = "Ok"
         THEN <<Head(results).proof>> \o CollectOk(Tail(results))
         ELSE CollectOk(Tail(results))

FaultChains ==
    [parent_block_number : {0, 252},
     proposal_output_count : 1..MaxOutputCount,
     output_block_span : 1..MaxSpan,
     games_count : {3}]

FaultInit ==
    /\ f_pc = "start"
    /\ f_chain \in FaultChains
    /\ f_args \in [fault_offset : 1..f_chain.proposal_output_count,
                   fault_parent : {2},
                   fault_null : BOOLEAN]
    /\ f_plan = NoPlan
    /\ f_tasks = <<>>
    /\ f_order = <<>>
    /\ f_elements = <<>>
    /\ f_dupe_counter = 0
    /\ f_observed = {}
    /\ f_extra_data = <<>>
    /\ \E siblings \in 0..MaxSiblings :
          f_factory =
              {[root |-> ProposedOutputRoot(f_chain, f_args),
                extra_data |-> ExtraData(ProposedBlockNumber(f_chain),
                                         f_args.fault_parent, c),
                address |-> 1 + c,
                by |-> "earlier"] : c \in 0..(siblings - 1)}
    /\ f_outcome = "none"

FaultIdle ==
    /\ f_pc = "idle"
    /\ f_chain = [games_count |-> 0]
    /\ f_args = [fault_offset |-> 0]
    /\ f_plan = NoPlan
    /\ f_tasks = <<>>
    /\ f_order = <<>>
    /\ f_elements = <<>>
    /\ f_dupe_counter = 0
    /\ f_observed = {}
    /\ f_extra_data = <<>>
    /\ f_factory = {}
    /\ f_outcome = "none"

\* fault: the contract constants and the parent are read, the faulty
\* proposal is prepared and one fetch task per field element is spawned;
\* fetching the proposed output root may fail
FaultPrepare ==
    /\ f_pc = "start"
    /\ \E root_ok \in BOOLEAN :
          IF ~root_ok /\ ProposedBlockNumber(f_chain) # FaultyBlockNumber(f_chain, f_args)
          THEN /\ f_pc' = "failed"
               /\ UNCHANGED <<f_plan, f_tasks>>
          ELSE /\ f_plan' = Plan(f_chain, f_args)
               /\ f_tasks' = [i \in 1..(FieldElementsPerBlob - 1) |-> Pending]
               /\ f_pc' = "fetch"
    /\ UNCHANGED <<f_args, f_chain, f_order, f_elements, f_dupe_counter,
                   f_observed, f_extra_data, f_factory, f_outcome>>
    /\ UNCHANGED notFault

\* fault: a spawned fetch task completes, in any order; a task that asks
\* the op-node may fail, and any task may end without a result to join
FetchTaskCompletes(i) ==
    /\ f_pc = "fetch"
    /\ f_tasks[i] = Pending
    /\ \E outcome \in {"ok", "error", "join_error"} :
          f_tasks' = [f_tasks EXCEPT ![i] =
                         IF outcome = "error" /\ Fetches(i, f_chain, f_plan)
                         THEN Err("output_at_block")
                         ELSE IF outcome = "join_error"
                         THEN Err("join")
                         ELSE Ok(FieldElement(i, f_chain, f_plan))]
    /\ f_order' = Append(f_order, i)
    /\ UNCHANGED <<f_pc, f_args, f_chain, f_plan, f_elements, f_dupe_counter,
                   f_observed, f_extra_data, f_factory, f_outcome>>
    /\ UNCHANGED notFault

\* (mutant) the sidecar is built from whatever elements were fetched
FaultJoinAnyCount ==
    /\ f_pc = "fetch"
    /\ \A i \in 1..Len(f_tasks) : f_tasks[i] # Pending
    /\ f_elements' = CollectOk(JoinAll(f_tasks, f_order))
    /\ f_tasks' = <<>>
    /\ f_pc' = "search"
    /\ UNCHANGED <<f_args, f_chain, f_plan, f_order, f_dupe_counter,
                   f_observed, f_extra_data, f_factory, f_outcome>>
    /\ UNCHANGED notFault

\* fault: join_all returns, the failed results are dropped, and the sidecar
\* is built when every field element is there
FaultJoin ==
    /\ f_pc = "fetch"
    /\ \A i \in 1..Len(f_tasks) : f_tasks[i] # Pending
    /\ f_elements' = CollectOk(JoinAll(f_tasks, f_order))
    /\ f_tasks' = <<>>
    /\ IF Len(f_elements') # FieldElementsPerBlob - 1
       THEN f_pc' = "failed"
       ELSE f_pc' = "search"
    /\ UNCHANGED <<f_args, f_chain, f_plan, f_order, f_dupe_counter,
                   f_observed, f_extra_data, f_factory, f_outcome>>
    /\ UNCHANGED notFault

\* (mutant) the search skips every other counter
FaultCheckCounterSkips ==
    /\ f_pc = "search"
    /\ LET extra_data == ExtraData(f_plan.proposed_block_number,
                                   f_args.fault_parent, f_dupe_counter)
           dupe_game_address == Games(f_factory, f_plan.proposed_output_root,
                                      extra_data)
       IN  IF dupe_game_address = 0
           THEN /\ f_extra_data' = extra_data
                /\ f_pc' = "submit"
                /\ UNCHANGED <<f_dupe_counter, f_observed>>
           ELSE /\ f_dupe_counter' = f_dupe_counter + 2
                /\ f_observed' = f_observed \cup {f_dupe_counter}
                /\ UNCHANGED <<f_pc, f_extra_data>>
    /\ UNCHANGED <<f_args, f_chain, f_plan, f_tasks, f_order, f_elements,
                   f_factory, f_outcome>>
    /\ UNCHANGED notFault

\* fault: one iteration of the loop that looks for a free duplication
\* counter
FaultCheckCounter ==
    /\ f_pc = "search"
    /\ LET extra_data == ExtraData(f_plan.proposed_block_number,
                                   f_args.fault_parent, f_dupe_counter)
           dupe_game_address == Games(f_factory, f_plan.proposed_output_root,
                                      extra_data)
       IN  IF dupe_game_address = 0
           THEN /\ f_extra_data' = extra_data
                /\ f_pc' = "submit"
                /\ UNCHANGED <<f_dupe_counter, f_observed>>
           ELSE /\ f_dupe_counter' = f_dupe_counter + 1
                /\ f_observed' = f_observed \cup {f_dupe_counter}
                /\ UNCHANGED <<f_pc, f_extra_data>>
    /\ UNCHANGED <<f_args, f_chain, f_plan, f_tasks, f_order, f_elements,
                   f_factory, f_outcome>>
    /\ UNCHANGED notFault

\* (mutant) the transaction carries the extra data of the next counter
FaultSubmitNextCounter ==
    /\ f_pc = "submit"
    /\ f_pc' = "done"
    /\ LET next == ExtraData(f_plan.proposed_block_number, f_args.fault_parent,
                             f_dupe_counter + 1)
       IN  IF Games(f_factory, f_plan.proposed_output_root, next) # 0
           THEN /\ f_outcome' = "duplicate"
                /\ UNCHANGED f_factory
           ELSE /\ f_factory' = f_factory \cup
                       {Game(f_factory, f_plan.proposed_output_root, next, "fault")}
                /\ f_outcome' = "submitted"
    /\ UNCHANGED <<f_args, f_chain, f_plan, f_tasks, f_order, f_elements,
                   f_dupe_counter, f_observed, f_extra_data>>
    /\ UNCHANGED notFault

\* fault: the propose transaction is sent with the extra data found; the
\* factory reverts when the root and extra data are registered already; a
\* failure is logged and fault returns
FaultSubmit ==
    /\ f_pc = "submit"
    /\ f_pc' = "done"
    /\ \E tx_ok \in BOOLEAN :
          IF ~tx_ok
          THEN /\ f_outcome' = "failed"
               /\ UNCHANGED f_factory
          ELSE IF Games(f_factory, f_plan.proposed_output_root, f_extra_data) # 0
          THEN /\ f_outcome' = "duplicate"
               /\ UNCHANGED f_factory
          ELSE /\ f_factory' = f_factory \cup
                      {Game(f_factory, f_plan.proposed_output_root,
                            f_extra_data, "fault")}
               /\ f_outcome' = "submitted"
    /\ UNCHANGED <<f_args, f_chain, f_plan, f_tasks, f_order, f_elements,
                   f_dupe_counter, f_observed, f_extra_data>>
    /\ UNCHANGED notFault

\* another builder, having searched the same way, registers a sibling of
\* the faulty proposal with the smallest free counter while the fault
\* builder searches or is about to submit
OtherPropose ==
    /\ f_pc \in {"search", "submit"}
    /\ Cardinality({g \in f_factory : g.by = "other"}) < MaxOthers
    /\ \E c \in 0..(MaxSiblings + MaxOthers) :
          LET extra(d) == ExtraData(f_plan.proposed_block_number,
                                    f_args.fault_parent, d)
          IN  /\ Games(f_factory, f_plan.proposed_output_root, extra(c)) = 0
              /\ \A b \in 0..(c - 1) :
                     Games(f_factory, f_plan.proposed_output_root, extra(b)) # 0
              /\ f_factory' = f_factory \cup
                     {Game(f_factory, f_plan.proposed_output_root,
                           extra(c), "other")}
    /\ UNCHANGED <<f_pc, f_args, f_chain, f_plan, f_tasks, f_order, f_elements,
                   f_dupe_counter, f_observed, f_extra_data, f_outcome>>
    /\ UNCHANGED notFault

(***************************************************************************)
(* PROPOSAL TIMING: bin/cli/src/sync/deployment.rs, SyncDeployment         *)
(***************************************************************************)

\* (mutant) the bound without the additional second
MinProposalTimeNoExtra(deploy, proposal_block_number) ==
    deploy.genesis_time + proposal_block_number * deploy.block_time
        + deploy.proposal_gap

\* SyncDeployment::min_proposal_time
MinProposalTime(deploy, proposal_block_number) ==
    deploy.genesis_time + proposal_block_number * deploy.block_time
        + deploy.proposal_gap + 1

\* SyncDeployment::time_to_propose
TimeToPropose(deploy, proposal_block_number, proposal_time) ==
    SaturatingSub(MinProposalTime(deploy, proposal_block_number), proposal_time)

\* SyncDeployment::allows_proposal
AllowsProposal(deploy, proposal_block_number, proposal_time) ==
    TimeToPropose(deploy, proposal_block_number, proposal_time) = 0

DeployInit ==
    /\ d_deploy \in [genesis_time : 0..1, block_time : 1..2, proposal_gap : 0..1]
    /\ d_block \in 0..MaxHeight
    /\ d_time = 0
    /\ d_checked = FALSE
    /\ d_allows = FALSE
    /\ d_wait = 0
    /\ d_first = -1

DeployIdle ==
    /\ d_deploy = [genesis_time |-> 0]
    /\ d_block = 0
    /\ d_time = -1
    /\ d_checked = FALSE
    /\ d_allows = FALSE
    /\ d_wait = 0
    /\ d_first = -1

\* allows_proposal and time_to_propose are called for the block at the
\* current time
CheckProposalTime ==
    /\ d_time >= 0
    /\ ~d_checked
    /\ d_checked' = TRUE
    /\ d_allows' = AllowsProposal(d_deploy, d_block, d_time)
    /\ d_wait' = TimeToPropose(d_deploy, d_block, d_time)
    /\ d_first' = IF d_first = -1 /\ d_allows' THEN d_time ELSE d_first
    /\ UNCHANGED <<d_deploy, d_block, d_time>>
    /\ UNCHANGED notDeploy

\* the L1 time advances
ClockTick ==
    /\ d_time >= 0
    /\ d_time < MaxTime
    /\ d_time' = d_time + 1
    /\ d_checked' = FALSE
    /\ UNCHANGED <<d_deploy, d_block, d_allows, d_wait, d_first>>
    /\ UNCHANGED notDeploy

(***************************************************************************)
(* BLOB MATHEMATICS: bin/cli/src/provider.rs                               *)
(***************************************************************************)
RECURSIVE Pow2(_)
Pow2(n) == IF n = 0 THEN 1 ELSE 2 * Pow2(n - 1)

\* u128::reverse_bits, on words of Bits bits
RECURSIVE FullReverse(_, _)
FullReverse(x, w) ==
    IF w = 0 THEN 0
    ELSE ((x % 2) * Pow2(w - 1)) + FullReverse(x \div 2, w - 1)

\* reverse_bits: whether the shift amount reaches the width of the word,
\* which panics where overflow is checked
ShiftOverflows(order_po2) == Bits - order_po2 >= Bits

\* (mutant) the low order_po2 bits rotated by one place
ReverseBitsRotated(index, order_po2) ==
    IF order_po2 = 0 THEN 0
    ELSE ((2 * index) % Pow2(order_po2)) + ((index \div Pow2(order_po2 - 1)) % 2)

\* reverse_bits: the word reversed and shifted right; a shift amount that
\* reaches the width is taken modulo the width where overflow is unchecked
ReverseBits(index, order_po2) ==
    FullReverse(index, Bits) \div Pow2((Bits - order_po2) % Bits)

RECURSIVE PowMod(_, _, _)
PowMod(base, exp, modulus) ==
    IF exp = 0 THEN 1 % modulus
    ELSE (base * PowMod(base, exp - 1, modulus)) % modulus

\* BLS_MODULUS, scaled down to a prime whose multiplicative group has the
\* blob's roots of unity
BlsModulus == 17
\* PRIMITIVE_ROOT_OF_UNITY, a generator of that group as well
PrimitiveRoot == 7
\* the number of field elements of a blob
BlobLength == Pow2(FeOrderPo2)

\* (mutant) the index itself is the exponent of the root
RootOfUnityByIndex(index) ==
    LET primitive_root_exponent == (BlsModulus - 1) \div BlobLength
        root == PowMod(PrimitiveRoot, primitive_root_exponent, BlsModulus)
    IN  PowMod(root, index, BlsModulus)

\* root_of_unity
RootOfUnity(index) ==
    LET primitive_root_exponent == (BlsModulus - 1) \div BlobLength
        root == PowMod(PrimitiveRoot, primitive_root_exponent, BlsModulus)
        root_exponent == ReverseBits(index, FeOrderPo2)
    IN  PowMod(root, root_exponent, BlsModulus)

\* the polynomial of a blob evaluated at a root of unity: a blob holds its
\* polynomial's values at the roots of unity in bit-reversed order
Eval(blob, z) == blob[1 + CHOOSE i \in 0..(BlobLength - 1) : RootOfUnity(i) = z]

\* KzgCommitment::blob_to_kzg_commitment: binding, so the blob itself
Commitment(blob) == [blob |-> blob]

\* an opening of a commitment at z to value y, as compute_kzg_proof makes it
KzgProof(commitment, z, y) == [commitment |-> commitment, z |-> z, y |-> y]

\* KzgProof::verify_kzg_proof
VerifyKzgProof(commitment, z, value, proof) ==
    /\ proof = KzgProof(commitment, z, value)
    /\ Eval(commitment.blob, z) = value

NoOpening == [value |-> -1]
Opening(proof, value) == [proof |-> proof, value |-> value]

ProviderInit ==
    \/ /\ v_pc = "reverse"
       /\ v_index \in 0..(Pow2(Bits) - 1)
       /\ v_order_po2 \in 0..Bits
       /\ v_blob = <<>>
       /\ v_once = -1
       /\ v_twice = -1
       /\ v_opening = NoOpening
       /\ v_result = Pending
    \/ /\ v_pc = "blob_fe_proof"
       /\ v_index \in 0..(BlobLength - 1)
       /\ v_order_po2 = FeOrderPo2
       /\ v_blob \in [1..BlobLength -> 0..1]
       /\ v_once = -1
       /\ v_twice = -1
       /\ v_opening = NoOpening
       /\ v_result = Pending

ProviderIdle ==
    /\ v_pc = "idle"
    /\ v_index = 0
    /\ v_order_po2 = 0
    /\ v_blob = <<>>
    /\ v_once = -1
    /\ v_twice = -1
    /\ v_opening = NoOpening
    /\ v_result = Pending

\* reverse_bits(index, order_po2) is called
ReverseOnce ==
    /\ v_pc = "reverse"
    /\ \E checked \in BOOLEAN :
          IF checked /\ ShiftOverflows(v_order_po2)
          THEN /\ v_pc' = "panicked"
               /\ UNCHANGED v_once
          ELSE /\ v_once' = ReverseBits(v_index, v_order_po2)
               /\ v_pc' = "reversed"
    /\ UNCHANGED <<v_index, v_order_po2, v_twice, v_blob, v_opening, v_result>>
    /\ UNCHANGED notProvider

\* reverse_bits is called on the result, with the same order
ReverseTwice ==
    /\ v_pc = "reversed"
    /\ \E checked \in BOOLEAN :
          IF checked /\ ShiftOverflows(v_order_po2)
          THEN /\ v_pc' = "panicked"
               /\ UNCHANGED v_twice
          ELSE /\ v_twice' = ReverseBits(v_once, v_order_po2)
               /\ v_pc' = "reversed_twice"
    /\ UNCHANGED <<v_index, v_order_po2, v_once, v_blob, v_opening, v_result>>
    /\ UNCHANGED notProvider

\* blob_fe_proof: the evaluation point and compute_kzg_proof; the library
\* may fail, and what it returns is not trusted to be a valid opening
BlobFeProofCompute ==
    /\ v_pc = "blob_fe_proof"
    /\ LET z == RootOfUnity(v_index)
       IN  \E outcome \in {"error", "sound", "wrong_value", "wrong_proof"} :
              IF outcome = "error"
              THEN /\ v_result' = Err("compute_kzg_proof")
                   /\ v_pc' = "returned"
                   /\ UNCHANGED v_opening
              ELSE /\ v_opening' =
                         IF outcome = "sound"
                         THEN Opening(KzgProof(Commitment(v_blob), z, Eval(v_blob, z)),
                                      Eval(v_blob, z))
                         ELSE IF outcome = "wrong_value"
                         THEN Opening(KzgProof(Commitment(v_blob), z, Eval(v_blob, z)),
                                      1 - Eval(v_blob, z))
                         ELSE Opening(KzgProof(Commitment(v_blob), z, 1 - Eval(v_blob, z)),
                                      Eval(v_blob, z))
                   /\ v_pc' = "computed"
                   /\ UNCHANGED v_result
    /\ UNCHANGED <<v_index, v_order_po2, v_once, v_twice, v_blob>>
    /\ UNCHANGED notProvider

\* (mutant) the opening is returned as computed
BlobFeProofNoVerify ==
    /\ v_pc = "computed"
    /\ v_result' = Ok(v_opening)
    /\ v_pc' = "returned"
    /\ UNCHANGED <<v_index, v_order_po2, v_once, v_twice, v_blob, v_opening>>
    /\ UNCHANGED notProvider

\* blob_fe_proof: the commitment is computed and the opening is verified
\* against it; the opening is returned only if it verifies
BlobFeProofVerify ==
    /\ v_pc = "computed"
    /\ \E call_ok \in BOOLEAN :
          IF ~call_ok
          THEN v_result' = Err("c_kzg")
          ELSE IF VerifyKzgProof(Commitment(v_blob), RootOfUnity(v_index),
                                 v_opening.value, v_opening.proof)
          THEN v_result' = Ok(v_opening)
          ELSE v_result' = Err("Generated invalid kzg proof.")
    /\ v_pc' = "returned"
    /\ UNCHANGED <<v_index, v_order_po2, v_once, v_twice, v_blob, v_opening>>
    /\ UNCHANGED notProvider

(***************************************************************************)
(* L1 CHAIN PROVIDER: crates/common/src/kona.rs                            *)
(***************************************************************************)
\* B256::ZERO as a byte string
ZeroHash == <<>>

\* the RLP of a header: its number, its timestamp and its parent hash
RlpEncode(header) == <<header.number, header.timestamp>> \o header.parent_hash

\* keccak256 of a byte string: distinct strings have distinct digests, and
\* no digest is the string it is the digest of
HeaderDigest(bytes) == <<Len(bytes)>> \o bytes

\* the L1 chain: the header of block n names the hash of block n - 1
RECURSIVE HeaderAt(_)
HeaderAt(n) ==
    [number |-> n,
     timestamp |-> 1,
     parent_hash |-> IF n = 0 THEN ZeroHash
                     ELSE HeaderDigest(RlpEncode(HeaderAt(n - 1)))]

HashAt(n) == HeaderDigest(RlpEncode(HeaderAt(n)))

\* bytes that are no header, and their hash
JunkBytes == <<3>>
JunkHash == HeaderDigest(JunkBytes)
\* a hash whose preimage the oracle does not have
UnknownHash == <<5>>

\* the preimages the oracle holds
OracleData == {RlpEncode(HeaderAt(n)) : n \in 0..MaxHeight} \cup {JunkBytes}

\* the hashes a caller may ask for
ChainHashes == {HashAt(n) : n \in 0..MaxHeight} \cup {JunkHash, UnknownHash}

\* oracle.get(PreimageKey::new_keccak256(hash)): the preimage of the hash,
\* or a failure when the oracle has none
NoBytes == <<-1>>
OracleGet(hash) ==
    IF \E d \in OracleData : HeaderDigest(d) = hash
    THEN CHOOSE d \in OracleData : HeaderDigest(d) = hash
    ELSE NoBytes

\* Header::decode
NoHeader == [number |-> -1, timestamp |-> -1, parent_hash |-> ZeroHash]
RlpDecode(bytes) ==
    IF Len(bytes) < 2 THEN NoHeader
    ELSE [number |-> bytes[1],
          timestamp |-> bytes[2],
          parent_hash |-> SubSeq(bytes, 3, Len(bytes))]

\* Header::seal(hash): the hash is taken as given
Seal(header, hash) == [inner |-> header, seal |-> hash]

\* the BlockInfo of a sealed header
BlockInfoOf(sealed) ==
    [hash |-> sealed.seal,
     number |-> sealed.inner.number,
     parent_hash |-> sealed.inner.parent_hash,
     timestamp |-> sealed.inner.timestamp]

\* B256Map: get, insert and len on a set of (hash, index) pairs
MapHas(map, hash) == \E e \in map : e[1] = hash
MapGet(map, hash) == (CHOOSE e \in map : e[1] = hash)[2]
MapInsert(map, hash, index) == {e \in map : e[1] # hash} \cup {<<hash, index>>}
MapLen(map) == Cardinality(map)

\* OracleProviderError::BlockNumberPastHead(block_number, head)
BlockNumberPastHead(block_number, head) ==
    [tag |-> "Err", error |-> "BlockNumberPastHead",
     block_number |-> block_number, head |-> head]

ChainInit ==
    /\ c_pc = "new"
    /\ c_l1_head \in {ZeroHash, JunkHash} \cup {HashAt(n) : n \in 0..MaxHeight}
    /\ c_headers = <<>>
    /\ c_headers_map = {}
    /\ c_op = "none"
    /\ c_n = -1
    /\ c_index = -1
    /\ c_fetch = ZeroHash
    /\ c_ret = NoHeader
    /\ c_hints = 0
    /\ c_reads = 0
    /\ c_before = 0
    /\ c_calls = 0
    /\ c_result = Pending

ChainIdle ==
    /\ c_pc = "idle"
    /\ c_l1_head = ZeroHash
    /\ c_headers = <<>>
    /\ c_headers_map = {}
    /\ c_op = "none"
    /\ c_n = -1
    /\ c_index = -1
    /\ c_fetch = ZeroHash
    /\ c_ret = NoHeader
    /\ c_hints = 0
    /\ c_reads = 0
    /\ c_before = 0
    /\ c_calls = 0
    /\ c_result = Pending

\* OracleL1ChainProvider::new: an empty cache for a zero head; otherwise the
\* head's header is hinted, read, decoded and sealed with l1_head
OracleL1ChainProviderNew ==
    /\ c_pc = "new"
    /\ IF c_l1_head = ZeroHash
       THEN /\ c_pc' = "ready"
            /\ UNCHANGED <<c_headers, c_headers_map, c_hints, c_reads, c_result>>
       ELSE \E hint_ok \in BOOLEAN, get_ok \in BOOLEAN :
               LET header_rlp == OracleGet(c_l1_head)
                   l1_header == RlpDecode(header_rlp)
               IN  IF ~hint_ok
                   THEN /\ c_result' = Err("Preimage")
                        /\ c_pc' = "failed"
                        /\ UNCHANGED <<c_headers, c_headers_map, c_hints, c_reads>>
                   ELSE IF ~get_ok \/ header_rlp = NoBytes
                   THEN /\ c_result' = Err("Preimage")
                        /\ c_pc' = "failed"
                        /\ c_hints' = 1
                        /\ UNCHANGED <<c_headers, c_headers_map, c_reads>>
                   ELSE IF l1_header = NoHeader
                   THEN /\ c_result' = Err("Rlp")
                        /\ c_pc' = "failed"
                        /\ c_hints' = 1
                        /\ c_reads' = 1
                        /\ UNCHANGED <<c_headers, c_headers_map>>
                   ELSE /\ c_headers' = <<Seal(l1_header, c_l1_head)>>
                        /\ c_headers_map' = {<<c_l1_head, 0>>}
                        /\ c_hints' = 1
                        /\ c_reads' = 1
                        /\ c_pc' = "ready"
                        /\ UNCHANGED c_result
    /\ UNCHANGED <<c_l1_head, c_op, c_n, c_index, c_fetch, c_ret, c_before, c_calls>>
    /\ UNCHANGED notChain

\* (mutant) the range check is left out and the head is answered
BlockInfoByNumberUnchecked ==
    /\ c_pc = "ready"
    /\ c_calls < MaxCalls
    /\ \E block_number \in 0..(MaxHeight + 1) :
          /\ c_op' = "number"
          /\ c_n' = block_number
          /\ c_calls' = c_calls + 1
          /\ c_hints' = 0
          /\ c_reads' = 0
          /\ c_before' = Len(c_headers)
          /\ c_fetch' = ZeroHash
          /\ c_ret' = NoHeader
          /\ IF c_headers = <<>>
             THEN /\ c_pc' = "panicked"
                  /\ c_index' = -1
                  /\ c_result' = Pending
             ELSE /\ c_index' = IF block_number > c_headers[1].inner.number THEN 0
                                ELSE c_headers[1].inner.number - block_number
                  /\ c_result' = Pending
                  /\ c_pc' = "walk"
    /\ UNCHANGED <<c_l1_head, c_headers, c_headers_map>>
    /\ UNCHANGED notChain

\* block_info_by_number, up to the loop: a block number past the head's is
\* refused at once; indexing an empty cache panics
BlockInfoByNumber ==
    /\ c_pc = "ready"
    /\ c_calls < MaxCalls
    /\ \E block_number \in 0..(MaxHeight + 1) :
          /\ c_op' = "number"
          /\ c_n' = block_number
          /\ c_calls' = c_calls + 1
          /\ c_hints' = 0
          /\ c_reads' = 0
          /\ c_before' = Len(c_headers)
          /\ c_fetch' = ZeroHash
          /\ c_ret' = NoHeader
          /\ IF c_headers = <<>>
             THEN /\ c_pc' = "panicked"
                  /\ c_index' = -1
                  /\ c_result' = Pending
             ELSE IF block_number > c_headers[1].inner.number
             THEN /\ c_result' = BlockNumberPastHead(block_number,
                                                     c_headers[1].inner.number)
                  /\ c_index' = -1
                  /\ c_pc' = "ready"
             ELSE /\ c_index' = c_headers[1].inner.number - block_number
                  /\ c_result' = Pending
                  /\ c_pc' = "walk"
    /\ UNCHANGED <<c_l1_head, c_headers, c_headers_map>>
    /\ UNCHANGED notChain

\* block_info_by_number, the loop's test: while the map is not longer than
\* header_index the parent of the last mapped header is asked of
\* header_by_hash; otherwise the BlockInfo of headers[header_index] returns
BlockInfoWalk ==
    /\ c_pc = "walk"
    /\ IF MapLen(c_headers_map) <= c_index
       THEN /\ c_fetch' = c_headers[MapLen(c_headers_map)].inner.parent_hash
            /\ c_pc' = "by_hash"
            /\ UNCHANGED c_result
       ELSE /\ c_result' = Ok(BlockInfoOf(c_headers[c_index + 1]))
            /\ c_pc' = "ready"
            /\ UNCHANGED c_fetch
    /\ UNCHANGED <<c_l1_head, c_headers, c_headers_map, c_op, c_n, c_index,
                   c_ret, c_hints, c_reads, c_before, c_calls>>
    /\ UNCHANGED notChain

\* (mutant) the new header is mapped to the index of the one before it
BlockInfoExtendOffByOne ==
    /\ c_pc = "extend"
    /\ c_headers_map' = MapInsert(c_headers_map, c_fetch, Len(c_headers) - 1)
    /\ c_headers' = Append(c_headers, Seal(c_ret, c_fetch))
    /\ c_pc' = "walk"
    /\ UNCHANGED <<c_l1_head, c_op, c_n, c_index, c_fetch, c_ret, c_hints,
                   c_reads, c_before, c_calls, c_result>>
    /\ UNCHANGED notChain

\* block_info_by_number, the loop's body after header_by_hash returned: the
\* hash is mapped to the next index and the header, sealed with it, pushed
BlockInfoExtend ==
    /\ c_pc = "extend"
    /\ c_headers_map' = MapInsert(c_headers_map, c_fetch, Len(c_headers))
    /\ c_headers' = Append(c_headers, Seal(c_ret, c_fetch))
    /\ c_pc' = "walk"
    /\ UNCHANGED <<c_l1_head, c_op, c_n, c_index, c_fetch, c_ret, c_hints,
                   c_reads, c_before, c_calls, c_result>>
    /\ UNCHANGED notChain

\* what header_by_hash hands back: to its caller when called directly, to
\* the walk of block_info_by_number otherwise (whose ? passes an error on)
HeaderByHashReturns(direct, result) ==
    IF direct \/ result.tag = "Err"
    THEN /\ c_result' = result
         /\ c_pc' = "ready"
         /\ UNCHANGED c_ret
    ELSE /\ c_ret' = result.proof
         /\ c_pc' = "extend"
         /\ UNCHANGED c_result

\* (mutant) a miss goes on to read the preimage without a hint
HeaderByHashLookupNoHint(hash, direct) ==
    /\ c_fetch' = hash
    /\ IF direct
       THEN /\ c_op' = "hash"
            /\ c_calls' = c_calls + 1
            /\ c_before' = Len(c_headers)
            /\ c_reads' = 0
       ELSE UNCHANGED <<c_op, c_calls, c_before, c_reads>>
    /\ IF MapHas(c_headers_map, hash)
       THEN /\ HeaderByHashReturns(direct,
                   Ok(c_headers[MapGet(c_headers_map, hash) + 1].inner))
            /\ c_hints' = IF direct THEN 0 ELSE c_hints
       ELSE /\ c_hints' = IF direct THEN 0 ELSE c_hints
            /\ c_pc' = "get"
            /\ UNCHANGED <<c_result, c_ret>>

\* header_by_hash, up to the hint: a cached hash is answered from the cache;
\* for another the L1BlockHeader hint is sent, which may fail
HeaderByHashLookup(hash, direct) ==
    /\ c_fetch' = hash
    /\ IF direct
       THEN /\ c_op' = "hash"
            /\ c_calls' = c_calls + 1
            /\ c_before' = Len(c_headers)
            /\ c_reads' = 0
       ELSE UNCHANGED <<c_op, c_calls, c_before, c_reads>>
    /\ IF MapHas(c_headers_map, hash)
       THEN /\ HeaderByHashReturns(direct,
                   Ok(c_headers[MapGet(c_headers_map, hash) + 1].inner))
            /\ c_hints' = IF direct THEN 0 ELSE c_hints
       ELSE \E hint_ok \in BOOLEAN :
               IF hint_ok
               THEN /\ c_hints' = (IF direct THEN 0 ELSE c_hints) + 1
                    /\ c_pc' = "get"
                    /\ UNCHANGED <<c_result, c_ret>>
               ELSE /\ c_hints' = IF direct THEN 0 ELSE c_hints
                    /\ HeaderByHashReturns(direct, Err("Preimage"))

\* header_by_hash is entered, by a caller of the provider or by the walk
HeaderByHash ==
    /\ \/ /\ c_pc = "ready"
          /\ c_calls < MaxCalls
          /\ \E hash \in ChainHashes : HeaderByHashLookup(hash, TRUE)
       \/ /\ c_pc = "by_hash"
          /\ HeaderByHashLookup(c_fetch, FALSE)
    /\ UNCHANGED <<c_l1_head, c_headers, c_headers_map, c_n, c_index>>
    /\ UNCHANGED notChain

\* header_by_hash, after the hint: the keccak256-keyed preimage is read,
\* which may fail, and decoded
HeaderByHashGet ==
    /\ c_pc = "get"
    /\ \E get_ok \in BOOLEAN :
          LET header_rlp == OracleGet(c_fetch)
              header == RlpDecode(header_rlp)
              direct == c_op = "hash"
          IN  IF ~get_ok \/ header_rlp = NoBytes
              THEN /\ HeaderByHashReturns(direct, Err("Preimage"))
                   /\ UNCHANGED c_reads
              ELSE /\ c_reads' = c_reads + 1
                   /\ HeaderByHashReturns(direct,
                          IF header = NoHeader THEN Err("Rlp") ELSE Ok(header))
    /\ UNCHANGED <<c_l1_head, c_headers, c_headers_map, c_op, c_n, c_index,
                   c_fetch, c_hints, c_before, c_calls>>
    /\ UNCHANGED notChain

(***************************************************************************)
(* STITCHED PROOFS: build_zkvm_env of crates/prover/src/risczero/zkvm.rs,  *)
(* and the loops over stitched_proofs of bin/client/src/zkvm.rs and        *)
(* bin/client/src/bonsai.rs                                                *)
(***************************************************************************)
\* a zkVM receipt by its inner receipt
ZKVMReceipt(inner) == [variant |-> "ZKVMReceipt", inner |-> inner]
\* a proof that is not of the zkVM-receipt variant
BoundlessSeal == [variant |-> "BoundlessSeal", inner |-> "none"]

\* the receipts build_zkvm_env is given: risc0 receipts of any inner kind
Receipts == {ZKVMReceipt(inner) : inner \in {"Succinct", "Groth16"}}
\* the proofs the loops of bin/client are given
Proofs == Receipts \cup {BoundlessSeal}

\* the value segment_limit has when the option is not given
DefaultSegmentLimit == 21

\* the segment limits configured: the default and the values around it
SegmentLimits ==
    (DefaultSegmentLimit - SegmentSpread)..(DefaultSegmentLimit + SegmentSpread)

StitchInit ==
    /\ s_backend \in {"prover_zkvm", "client_zkvm", "bonsai"}
    /\ s_pc = IF s_backend = "bonsai" THEN "loop" ELSE "builder"
    /\ s_segment_limit \in SegmentLimits
    /\ s_env_po2 = 0                \* no limit set yet
    /\ s_force \in BOOLEAN
    /\ s_proofs \in SeqsOf(IF s_backend = "prover_zkvm" THEN Receipts ELSE Proofs,
                           0, MaxProofs)
    /\ s_i = 0
    /\ s_input = <<>>
    /\ s_assumptions = <<>>
    /\ s_result = Pending

StitchIdle ==
    /\ s_pc = "idle"
    /\ s_backend = "none"
    /\ s_segment_limit = 0
    /\ s_env_po2 = 0                \* no limit set yet
    /\ s_force = FALSE
    /\ s_proofs = <<>>
    /\ s_i = 0
    /\ s_input = <<>>
    /\ s_assumptions = <<>>
    /\ s_result = Pending

\* the proof at hand is written as guest input, which may fail
WriteInput(error) ==
    \E ok \in BOOLEAN :
       IF ok
       THEN /\ s_input' = Append(s_input, s_i + 1)
            /\ s_i' = s_i + 1
            /\ UNCHANGED <<s_pc, s_assumptions, s_result>>
       ELSE /\ s_result' = Err(error)
            /\ s_pc' = "failed"
            /\ UNCHANGED <<s_i, s_input, s_assumptions>>

\* the proof at hand becomes an assumption
AddAssumption ==
    /\ s_assumptions' = Append(s_assumptions, s_i + 1)
    /\ s_i' = s_i + 1
    /\ UNCHANGED <<s_pc, s_input, s_result>>

\* the segment limit bin/client's run_zkvm_client sets on its environment
ClientSegmentLimit == 21

\* build_zkvm_env: the builder is created and the segment limit it was
\* given, proving_args.segment_limit, is set on it
BuildZkvmEnvLimit ==
    /\ s_pc = "builder"
    /\ s_backend = "prover_zkvm"
    /\ s_env_po2' = s_segment_limit
    /\ s_pc' = "loop"
    /\ UNCHANGED <<s_backend, s_force, s_proofs, s_i, s_input, s_assumptions,
                   s_result, s_segment_limit>>
    /\ UNCHANGED notStitch

\* run_zkvm_client of bin/client: the builder is created, the witness frame
\* written and the segment limit set; the function is given no ProvingArgs
ClientZkvmLimit ==
    /\ s_pc = "builder"
    /\ s_backend = "client_zkvm"
    /\ s_env_po2' = ClientSegmentLimit
    /\ s_pc' = "loop"
    /\ UNCHANGED <<s_backend, s_force, s_proofs, s_i, s_input, s_assumptions,
                   s_result, s_segment_limit>>
    /\ UNCHANGED notStitch

\* (mutant) every receipt becomes an assumption unless recursion is forced
BuildZkvmEnvAllAssumed ==
    /\ s_pc = "loop"
    /\ s_backend = "prover_zkvm"
    /\ s_i < Len(s_proofs)
    /\ IF s_force
       THEN WriteInput("ExecutionError")
       ELSE AddAssumption
    /\ UNCHANGED <<s_backend, s_force, s_proofs, s_segment_limit, s_env_po2>>
    /\ UNCHANGED notStitch

\* build_zkvm_env, one turn of its loop: with KAILUA_FORCE_RECURSION the
\* receipt is written; otherwise a Groth16 receipt is written and any other
\* receipt is added as an assumption
BuildZkvmEnv ==
    /\ s_pc = "loop"
    /\ s_backend = "prover_zkvm"
    /\ s_i < Len(s_proofs)
    /\ IF s_force
       THEN WriteInput("ExecutionError")
       ELSE IF s_proofs[s_i + 1].inner = "Groth16"
       THEN WriteInput("ExecutionError")
       ELSE AddAssumption
    /\ UNCHANGED <<s_backend, s_force, s_proofs, s_segment_limit, s_env_po2>>
    /\ UNCHANGED notStitch

\* run_zkvm_client of bin/client, one turn of its loop: a zkVM receipt is
\* added as an assumption and any other proof is written; the environment
\* variable is not looked at
ClientZkvmEnv ==
    /\ s_pc = "loop"
    /\ s_backend = "client_zkvm"
    /\ s_i < Len(s_proofs)
    /\ IF s_proofs[s_i + 1].variant = "ZKVMReceipt"
       THEN AddAssumption
       ELSE WriteInput("ExecutionError")
    /\ UNCHANGED <<s_backend, s_force, s_proofs, s_segment_limit, s_env_po2>>
    /\ UNCHANGED notStitch

\* run_bonsai_client, one turn of its loop: with KAILUA_FORCE_RECURSION the
\* proof is written into the input; otherwise a zkVM receipt is serialized
\* and uploaded, its id becoming an assumption, and any other proof is
\* written into the input
BonsaiStitch ==
    /\ s_pc = "loop"
    /\ s_backend = "bonsai"
    /\ s_i < Len(s_proofs)
    /\ IF s_force
       THEN WriteInput("OtherError")
       ELSE IF s_proofs[s_i + 1].variant = "ZKVMReceipt"
       THEN \E uploaded \in BOOLEAN :
               IF uploaded
               THEN AddAssumption
               ELSE /\ s_result' = Err("OtherError")
                    /\ s_pc' = "failed"
                    /\ UNCHANGED <<s_i, s_input, s_assumptions>>
       ELSE WriteInput("OtherError")
    /\ UNCHANGED <<s_backend, s_force, s_proofs, s_segment_limit, s_env_po2>>
    /\ UNCHANGED notStitch

\* the loop is through: the environment is built, the input uploaded
StitchDone ==
    /\ s_pc = "loop"
    /\ s_i = Len(s_proofs)
    /\ s_pc' = "built"
    /\ s_result' = Ok(<<s_input, s_assumptions>>)
    /\ UNCHANGED <<s_backend, s_force, s_proofs, s_i, s_input, s_assumptions,
                   s_segment_limit, s_env_po2>>
    /\ UNCHANGED notStitch

(***************************************************************************)
(* PREIMAGE STORE ARCHIVE: crates/common/src/rkyv/vec.rs                   *)
(***************************************************************************)
\* an entry of a shard: a key (its type tag and digest), the preimage, and
\* the optional (shard index, slot index), <<>> standing for None
VecEntry(tag, digest, value, meta) ==
    [key |-> <<tag, digest>>, value |-> value, meta |-> meta]

\* the entries of the round-trip test, and one without metadata
EntryA == VecEntry(2, 17, <<34, 34>>, <<0, 1>>)
EntryB == VecEntry(2, 51, <<68, 68>>, <<2, 3>>)
EntryC == VecEntry(4, 17, <<>>, <<>>)

\* the shards a store is made of
VecShards ==
    {<<>>, <<EntryA>>, <<EntryB>>, <<EntryC>>, <<EntryA, EntryA>>,
     <<EntryA, EntryC>>, <<EntryC, EntryA>>}

\* (mutant) the entry is archived without its metadata
ArchiveEntryNoMeta(entry) ==
    entry.key \o <<Len(entry.value)>> \o entry.value \o <<0>>

\* the archive of an entry: the key, the length-prefixed preimage, and the
\* option's tag followed by its pair when there is one
ArchiveEntry(entry) ==
    entry.key \o <<Len(entry.value)>> \o entry.value
        \o (IF entry.meta = <<>> THEN <<0>> ELSE <<1>> \o entry.meta)

RECURSIVE ArchiveEntries(_)
ArchiveEntries(shard) ==
    IF shard = <<>> THEN <<>>
    ELSE ArchiveEntry(Head(shard)) \o ArchiveEntries(Tail(shard))

RECURSIVE ArchiveShards(_)
ArchiveShards(shards) ==
    IF shards = <<>> THEN <<>>
    ELSE <<Len(Head(shards))>> \o ArchiveEntries(Head(shards))
             \o ArchiveShards(Tail(shards))

\* Vec<PreimageVecEntry> as Serialize: the length-prefixed shards
ArchiveVec(shards) == <<Len(shards)>> \o ArchiveShards(shards)

\* what is left of bytes after its first n
Rest(bytes, n) == SubSeq(bytes, n + 1, Len(bytes))

\* the entry at the head of bytes, and what follows it
UnarchiveEntry(bytes) ==
    LET len == bytes[3]
        some == bytes[4 + len] = 1
        used == 4 + len + (IF some THEN 2 ELSE 0)
    IN  [item |-> VecEntry(bytes[1], bytes[2], SubSeq(bytes, 4, 3 + len),
                           IF some THEN SubSeq(bytes, 5 + len, 6 + len) ELSE <<>>),
         rest |-> Rest(bytes, used)]

RECURSIVE UnarchiveEntries(_, _)
UnarchiveEntries(bytes, n) ==
    IF n = 0 THEN [items |-> <<>>, rest |-> bytes]
    ELSE LET first == UnarchiveEntry(bytes)
             others == UnarchiveEntries(first.rest, n - 1)
         IN  [items |-> <<first.item>> \o others.items, rest |-> others.rest]

RECURSIVE UnarchiveShards(_, _)
UnarchiveShards(bytes, n) ==
    IF n = 0 THEN [items |-> <<>>, rest |-> bytes]
    ELSE LET first == UnarchiveEntries(Tail(bytes), Head(bytes))
             others == UnarchiveShards(first.rest, n - 1)
         IN  [items |-> <<first.items>> \o others.items, rest |-> others.rest]

\* Deserialize for the archived vector
UnarchiveVec(bytes) == UnarchiveShards(Tail(bytes), Head(bytes)).items

NoBytesYet == <<-1>>

ArchiveInit ==
    /\ a_pc = "serialize"
    /\ a_store \in SeqsOf(VecShards, 0, MaxShards)
    /\ a_bytes = NoBytesYet
    /\ a_out = <<>>
    /\ a_result = Pending

ArchiveIdle ==
    /\ a_pc = "idle"
    /\ a_store = <<>>
    /\ a_bytes = NoBytesYet
    /\ a_out = <<>>
    /\ a_result = Pending

\* PreimageVecStoreRkyv::serialize_with: the store is locked and its vector
\* serialized; the serializer may fail
SerializeWith ==
    /\ a_pc = "serialize"
    /\ \E ok \in BOOLEAN :
          IF ok
          THEN /\ a_bytes' = ArchiveVec(a_store)
               /\ a_pc' = "deserialize"
               /\ UNCHANGED a_result
          ELSE /\ a_result' = Err("serialize")
               /\ a_pc' = "failed"
               /\ UNCHANGED a_bytes
    /\ UNCHANGED <<a_store, a_out>>
    /\ UNCHANGED notArchive

\* PreimageVecStoreRkyv::deserialize_with: the archived vector is
\* deserialized and wrapped in a new Arc<Mutex<..>>
DeserializeWith ==
    /\ a_pc = "deserialize"
    /\ a_out' = UnarchiveVec(a_bytes)
    /\ a_result' = Ok(UnarchiveVec(a_bytes))
    /\ a_pc' = "done"
    /\ UNCHANGED <<a_store, a_bytes>>
    /\ UNCHANGED notArchive

(***************************************************************************)
(* STITCHING COMPOSITION: crates/prover/src/args.rs, ProveArgs, and        *)
(* crates/common/src/witness.rs, StitchedBootInfo; the dispatcher's sort   *)
(* and the stitching guest follow the specification                        *)
(***************************************************************************)

\* the largest number of child proofs of a stitched proof
MaxChildren == 3

\* u64::cmp
CmpU64(a, b) == IF a < b THEN "Less" ELSE IF a = b THEN "Equal" ELSE "Greater"

\* (mutant) an ordering by the claimed output root, descending
ProveArgsCmpByRoot(self, other) ==
    CmpU64(other.claimed_l2_output_root, self.claimed_l2_output_root)

\* ProveArgs::cmp: the claimed L2 block numbers are compared, nothing else
ProveArgsCmp(self, other) ==
    CmpU64(self.claimed_l2_block_number, other.claimed_l2_block_number)

\* ProveArgs::eq
ProveArgsEq(self, other) ==
    self.claimed_l2_block_number = other.claimed_l2_block_number

\* the fields of a child's ProveArgs that a StitchedBootInfo carries
StitchedBootInfo(l1_head, agreed, claimed, number) ==
    [l1_head |-> l1_head,
     agreed_l2_output_root |-> agreed,
     claimed_l2_output_root |-> claimed,
     claimed_l2_block_number |-> number]

\* a stable insertion of one ProveArgs into a sorted sequence
RECURSIVE InsertSorted(_, _)
InsertSorted(x, sorted) ==
    IF sorted = <<>> THEN <<x>>
    ELSE IF ProveArgsCmp(x, Head(sorted)) = "Less"
         THEN <<x>> \o sorted
         ELSE <<Head(sorted)>> \o InsertSorted(x, Tail(sorted))

\* the dispatcher's sort of the child proofs
RECURSIVE SortChildren(_)
SortChildren(children) ==
    IF children = <<>> THEN <<>>
    ELSE InsertSorted(children[Len(children)],
                      SortChildren(SubSeq(children, 1, Len(children) - 1)))

\* the block a child proof ends at: the start plus the spans up to it
RECURSIVE EndOf(_, _, _)
EndOf(start, spans, i) ==
    IF i = 0 THEN start ELSE EndOf(start, spans, i - 1) + spans[i]

\* the child proofs of a task split at the given spans, one after the other
ChildChain(l1_head, start, spans) ==
    [i \in 1..Len(spans) |->
        StitchedBootInfo(l1_head,
                         OutputAtBlock(EndOf(start, spans, i - 1)),
                         OutputAtBlock(EndOf(start, spans, i)),
                         EndOf(start, spans, i))]

Orders(n) == {f \in [1..n -> 1..n] : \A i, j \in 1..n : f[i] = f[j] => i = j}

NoStitchedJournal == StitchedBootInfo(0, 0, 0, 0)

ComposeInit ==
    /\ k_pc = "collected"
    /\ \E l1_head \in 1..2, start \in 0..MaxHeight,
          spans \in SeqsOf(1..MaxSpan, 1, MaxChildren) :
          \E order \in Orders(Len(spans)) :
             k_children = [i \in 1..Len(spans) |->
                              ChildChain(l1_head, start, spans)[order[i]]]
    /\ k_sorted = <<>>
    /\ k_i = 0
    /\ k_journal = NoStitchedJournal

ComposeIdle ==
    /\ k_pc = "idle"
    /\ k_children = <<>>
    /\ k_sorted = <<>>
    /\ k_i = 0
    /\ k_journal = NoStitchedJournal

\* the dispatcher orders the child proofs it collected
ComposeSort ==
    /\ k_pc = "collected"
    /\ k_sorted' = SortChildren(k_children)
    /\ k_pc' = "stitch"
    /\ UNCHANGED <<k_children, k_i, k_journal>>
    /\ UNCHANGED notCompose

\* the stitching guest takes the next StitchedBootInfo: the first opens the
\* journal, a later one must continue it from its claimed root at the same
\* L1 head and moves the claim forward
ComposeStitch ==
    /\ k_pc = "stitch"
    /\ k_i < Len(k_sorted)
    /\ LET boot == k_sorted[k_i + 1] IN
       IF k_i = 0
       THEN /\ k_journal' = boot
            /\ k_i' = 1
            /\ UNCHANGED k_pc
       ELSE IF /\ boot.l1_head = k_journal.l1_head
               /\ boot.agreed_l2_output_root = k_journal.claimed_l2_output_root
       THEN /\ k_journal' =
                   [k_journal EXCEPT
                       !.claimed_l2_output_root = boot.claimed_l2_output_root,
                       !.claimed_l2_block_number = boot.claimed_l2_block_number]
            /\ k_i' = k_i + 1
            /\ UNCHANGED k_pc
       ELSE /\ k_pc' = "refused"
            /\ UNCHANGED <<k_i, k_journal>>
    /\ UNCHANGED <<k_children, k_sorted>>
    /\ UNCHANGED notCompose

\* the stitched journal is committed
ComposeDone ==
    /\ k_pc = "stitch"
    /\ k_i = Len(k_sorted)
    /\ k_pc' = "done"
    /\ UNCHANGED <<k_children, k_sorted, k_i, k_journal>>
    /\ UNCHANGED notCompose

(***************************************************************************)
(* NATIVE CLIENT: bin/client/src/lib.rs, run_native_client                 *)
(***************************************************************************)
\* Option<B256>
NoOutput == [some |-> FALSE, hash |-> 0]
SomeOutput(hash) == [some |-> TRUE, hash |-> hash]

\* the boot fields a journal is made of
BootInfos ==
    [l1_head : 1..2,
     agreed_l2_output_root : B256,
     claimed_l2_output_root : B256,
     claimed_l2_block_number : 0..MaxHeight]

NativeInit ==
    /\ t_pc = "preamble"
    /\ t_boot \in BootInfos
    /\ t_computed = NoOutput
    /\ t_result = Pending

NativeIdle ==
    /\ t_pc = "idle"
    /\ t_boot = [l1_head |-> 0]
    /\ t_computed = NoOutput
    /\ t_result = Pending

\* a run of the guest or a native run of the client
PrematureInit ==
    \/ GuestInit /\ NativeIdle
    \/ GuestIdle /\ NativeInit

\* run_native_client: BootInfo::load reads the boot info from the oracle,
\* which may fail
NativeBootLoad ==
    /\ t_pc = "preamble"
    /\ \E ok \in BOOLEAN :
          IF ok
          THEN t_pc' = "run_client" /\ UNCHANGED t_result
          ELSE t_pc' = "returned" /\ t_result' = Err("BootInfo::load")
    /\ UNCHANGED <<t_boot, t_computed>>
    /\ UNCHANGED notNative

\* run_native_client: run_client derives the output as of the L1 head, if
\* the data suffices, or fails
NativeRunClient ==
    /\ t_pc = "run_client"
    /\ \E ok \in BOOLEAN :
          IF ok
          THEN /\ t_computed' \in {NoOutput} \cup {SomeOutput(h) : h \in B256}
               /\ t_pc' = "check_output"
               /\ UNCHANGED t_result
          ELSE /\ t_pc' = "returned"
               /\ t_result' = Err("run_client")
               /\ UNCHANGED t_computed
    /\ UNCHANGED t_boot
    /\ UNCHANGED notNative

\* (mutant) the claim is compared only when an output was computed
NativeCheckOutputOnlyComputed ==
    /\ t_pc = "check_output"
    /\ IF t_computed.some /\ t_boot.claimed_l2_output_root # t_computed.hash
       THEN t_pc' = "panicked"
       ELSE t_pc' = "journal"
    /\ UNCHANGED <<t_boot, t_computed, t_result>>
    /\ UNCHANGED notNative

\* run_native_client: the two assert_eq! on the boot claim
NativeCheckOutput ==
    /\ t_pc = "check_output"
    /\ IF t_computed.some
       THEN IF t_boot.claimed_l2_output_root = t_computed.hash
            THEN t_pc' = "journal"
            ELSE t_pc' = "panicked"
       ELSE IF t_boot.claimed_l2_output_root = 0
            THEN t_pc' = "journal"
            ELSE t_pc' = "panicked"
    /\ UNCHANGED <<t_boot, t_computed, t_result>>
    /\ UNCHANGED notNative

\* run_native_client: the witness and the journal of the boot info are
\* returned
NativeReturn ==
    /\ t_pc = "journal"
    /\ t_result' = Ok(t_boot)
    /\ t_pc' = "returned"
    /\ UNCHANGED <<t_boot, t_computed>>
    /\ UNCHANGED notNative

(***************************************************************************)
(* PAYLOAD PREFLIGHT: crates/prover/src/client/payload.rs                  *)
(***************************************************************************)
\* the attempts made to fetch the execution witness of a block
PayloadRetries == 5

\* u64::MAX, block numbers being scaled down to eight bits
MaxBlockNumber == 2^8 - 1

\* the bitwise complement of an output root, roots being scaled down to
\* eight bits
Invert(root) == (2^8 - 1) - root

\* a root that is the output of no block
NoBlockRoot == OutputAtBlock(0) - 1

\* a character that is no hexadecimal digit: the digits are 0..15
NonHex == 2^4

\* Bytes::from_hex succeeds on an even number of hexadecimal digits
FromHexOk(text) == Len(text) % 2 = 0 /\ \A k \in 1..Len(text) : text[k] < NonHex

\* Bytes::from_hex: two digits make a byte
FromHex(text) == [k \in 1..(Len(text) \div 2) |-> 16 * text[2 * k - 1] + text[2 * k]]

\* an entry of the key-value store
KvEntry(type, digest, value) == [type |-> type, digest |-> digest, value |-> value]

\* the processed marker of the payload that follows the block of this root
ExecWitKey(claimed_l2_output_root) ==
    KvEntry("GlobalGeneric", Invert(claimed_l2_output_root), <<>>)

\* kv.get(key).is_some()
KvHas(kv, type, digest) == \E e \in kv : e.type = type /\ e.digest = digest

\* (mutant) the preimage is stored under the digest of its hexadecimal text
SaveHexPreimageByText(preimage) ==
    IF FromHexOk(preimage)
    THEN <<KvEntry("Keccak256", Keccak256(preimage), FromHex(preimage))>>
    ELSE <<>>

\* save_hex_preimage_to_kv: the entries it sets; a string that is no
\* hexadecimal text sets none
SaveHexPreimageToKv(preimage) ==
    IF FromHexOk(preimage)
    THEN <<KvEntry("Keccak256", Keccak256(FromHex(preimage)), FromHex(preimage))>>
    ELSE <<>>

\* JSON values: a member of an object carries its name as key
JsonString(key, text) == [kind |-> "string", key |-> key, text |-> text, members |-> <<>>]
JsonNumber(key) == [kind |-> "number", key |-> key, text |-> <<>>, members |-> <<>>]
JsonArray(key, items) == [kind |-> "array", key |-> key, text |-> <<>>, members |-> items]
JsonObject(key, members) == [kind |-> "object", key |-> key, text |-> <<>>, members |-> members]

\* dump_payload_to_kv_store: the entries set, in the order of the calls
RECURSIVE DumpPayloadToKvStore(_)
RECURSIVE DumpMembers(_, _)
DumpMembers(members, with_keys) ==
    IF members = <<>> THEN <<>>
    ELSE (IF with_keys THEN SaveHexPreimageToKv(Head(members).key) ELSE <<>>)
         \o DumpPayloadToKvStore(Head(members))
         \o DumpMembers(Tail(members), with_keys)

DumpPayloadToKvStore(payload) ==
    IF payload.kind = "object" THEN DumpMembers(payload.members, TRUE)
    ELSE IF payload.kind = "array" THEN DumpMembers(payload.members, FALSE)
    ELSE IF payload.kind = "string" THEN SaveHexPreimageToKv(payload.text)
    ELSE <<>>

NoWitness == JsonNumber(<<>>)

\* what debug_executionWitness returns for a block: named lists of
\* preimages, or a map from hashes to preimages beside other values
ExecutionWitness(block) ==
    IF block % 2 = 1
    THEN JsonObject(<<>>,
             <<JsonArray(<<NonHex, 1>>,
                   <<JsonString(<<>>, <<0, block % 2, 1, 0>>),
                     JsonString(<<>>, <<1, 1>>)>>),
               JsonNumber(<<NonHex, 2>>)>>)
    ELSE JsonObject(<<>>,
             <<JsonObject(<<NonHex, 3>>,
                   <<JsonString(<<0, 1>>, <<1, 0, 1>>),
                     JsonString(<<1, 0>>, <<0, 0>>)>>)>>)

\* the store after the entries were set
KvSet(kv, entries) == kv \cup {entries[k] : k \in 1..Len(entries)}

\* what an earlier run left in the store for the blocks it processed
Processed(blocks) ==
    UNION {KvSet({ExecWitKey(OutputAtBlock(b - 1))},
                 DumpPayloadToKvStore(ExecutionWitness(b))) : b \in blocks}

\* output roots: those of the blocks of the chain and one of no block
PayloadRoots == {OutputAtBlock(b) : b \in 0..MaxHeight} \cup {NoBlockRoot}

PayloadInit ==
    /\ y_pc = "start"
    /\ y_boot \in [claimed_l2_block_number : 0..MaxHeight,
                   claimed_l2_output_root : PayloadRoots,
                   agreed_l2_output_root : PayloadRoots]
    /\ \E blocks \in SUBSET (1..MaxHeight) : y_kv = Processed(blocks)
    /\ y_retries = 0
    /\ y_requests = <<>>
    /\ y_witness = NoWitness
    /\ y_result = Pending
    /\ y_start = y_boot.claimed_l2_block_number

PayloadIdle ==
    /\ y_pc = "idle"
    /\ y_boot = [claimed_l2_block_number |-> 0]
    /\ y_kv = {}
    /\ y_retries = 0
    /\ y_requests = <<>>
    /\ y_witness = NoWitness
    /\ y_result = Pending
    /\ y_start = 0

\* run_payload_client: create_split_kv_store, which may fail
PayloadStart ==
    /\ y_pc = "start"
    /\ \E ok \in BOOLEAN :
          IF ok
          THEN y_pc' = "while" /\ UNCHANGED y_result
          ELSE y_pc' = "returned" /\ y_result' = Err("OtherError")
    /\ UNCHANGED <<y_boot, y_kv, y_retries, y_requests, y_witness>>
    /\ UNCHANGED <<y_start, notPayload>>

\* run_payload_client: the test of the while loop and the step back by one
\* block; on block 0 the subtraction overflows, which panics in a build
\* with overflow checks and wraps in one without
PayloadWhile ==
    /\ y_pc = "while"
    /\ IF y_boot.claimed_l2_output_root = y_boot.agreed_l2_output_root
       THEN /\ y_result' = Ok(TRUE)
            /\ y_pc' = "returned"
            /\ UNCHANGED y_boot
       ELSE IF y_boot.claimed_l2_block_number = 0
       THEN \E overflow_checks \in BOOLEAN :
               IF overflow_checks
               THEN /\ y_pc' = "panic_overflow"
                    /\ UNCHANGED <<y_boot, y_result>>
               ELSE /\ y_boot' = [y_boot EXCEPT
                                     !.claimed_l2_block_number = MaxBlockNumber]
                    /\ y_pc' = "output"
                    /\ UNCHANGED y_result
       ELSE /\ y_boot' = [y_boot EXCEPT
                             !.claimed_l2_block_number =
                                 y_boot.claimed_l2_block_number - 1]
            /\ y_pc' = "output"
            /\ UNCHANGED y_result
    /\ UNCHANGED <<y_kv, y_retries, y_requests, y_witness>>
    /\ UNCHANGED <<y_start, notPayload>>

\* run_payload_client: output_at_block, which fails for a block the chain
\* does not have and may fail otherwise, then the look for the processed
\* marker under the read lock; retries starts at five
PayloadOutput ==
    /\ y_pc = "output"
    /\ \E ok \in BOOLEAN :
          IF ~ok \/ y_boot.claimed_l2_block_number > MaxHeight
          THEN /\ y_result' = Err("output_at_block")
               /\ y_pc' = "returned"
               /\ UNCHANGED <<y_boot, y_retries>>
          ELSE LET root == OutputAtBlock(y_boot.claimed_l2_block_number) IN
               /\ y_boot' = [y_boot EXCEPT !.claimed_l2_output_root = root]
               /\ IF KvHas(y_kv, "GlobalGeneric", Invert(root))
                  THEN y_pc' = "while" /\ UNCHANGED y_retries
                  ELSE y_pc' = "attempt" /\ y_retries' = PayloadRetries
               /\ UNCHANGED y_result
    /\ UNCHANGED <<y_kv, y_requests, y_witness>>
    /\ UNCHANGED <<y_start, notPayload>>

\* (mutant) the retries are counted after the test
PayloadAttemptLateCount ==
    /\ y_pc = "attempt"
    /\ \E ok \in BOOLEAN :
          /\ y_requests' = Append(y_requests,
                 [block |-> y_boot.claimed_l2_block_number + 1, ok |-> ok])
          /\ IF ok
             THEN /\ y_witness' = ExecutionWitness(y_boot.claimed_l2_block_number + 1)
                  /\ y_pc' = "store"
                  /\ UNCHANGED <<y_result, y_retries>>
             ELSE IF y_retries = 0
             THEN /\ y_result' = Ok(FALSE)
                  /\ y_pc' = "returned"
                  /\ UNCHANGED <<y_witness, y_retries>>
             ELSE /\ y_retries' = y_retries - 1
                  /\ UNCHANGED <<y_pc, y_witness, y_result>>
    /\ UNCHANGED <<y_boot, y_kv>>
    /\ UNCHANGED <<y_start, notPayload>>

\* run_payload_client: one turn of the request loop: debug_executionWitness
\* is requested for the block after the one stepped back to, retries is
\* decremented, and the loop breaks on success or when retries is zero
PayloadAttempt ==
    /\ y_pc = "attempt"
    /\ \E ok \in BOOLEAN :
          /\ y_requests' = Append(y_requests,
                 [block |-> y_boot.claimed_l2_block_number + 1, ok |-> ok])
          /\ y_retries' = y_retries - 1
          /\ IF ok
             THEN /\ y_witness' = ExecutionWitness(y_boot.claimed_l2_block_number + 1)
                  /\ y_pc' = "store"
                  /\ UNCHANGED y_result
             ELSE IF y_retries' = 0
             THEN /\ y_result' = Ok(FALSE)
                  /\ y_pc' = "returned"
                  /\ UNCHANGED y_witness
             ELSE UNCHANGED <<y_pc, y_witness, y_result>>
    /\ UNCHANGED <<y_boot, y_kv>>
    /\ UNCHANGED <<y_start, notPayload>>

\* (mutant) the marker is set before the preimages are dumped
PayloadStoreMarkerFirst ==
    /\ y_pc = "store"
    /\ LET entries == DumpPayloadToKvStore(y_witness)
           marker == ExecWitKey(y_boot.claimed_l2_output_root)
       IN  \E stored \in 0..(Len(entries) + 1) :
              /\ y_kv' = IF stored = 0 THEN y_kv
                         ELSE KvSet(y_kv \cup {marker}, SubSeq(entries, 1, stored - 1))
              /\ IF stored = Len(entries) + 1
                 THEN y_pc' = "while" /\ UNCHANGED y_result
                 ELSE IF stored = 0
                 THEN y_pc' = "returned" /\ y_result' = Err("kv.set")
                 ELSE y_pc' = "panic_set" /\ UNCHANGED y_result
    /\ UNCHANGED <<y_boot, y_retries, y_requests, y_witness>>
    /\ UNCHANGED <<y_start, notPayload>>

\* run_payload_client: under the write lock the preimages of the witness
\* are dumped, a failing set panicking after the sets before it, and then
\* the processed marker is set, a failure of which is returned
PayloadStore ==
    /\ y_pc = "store"
    /\ LET entries == DumpPayloadToKvStore(y_witness)
           marker == ExecWitKey(y_boot.claimed_l2_output_root)
       IN  \E stored \in 0..(Len(entries) + 1) :
              /\ y_kv' = IF stored = Len(entries) + 1
                         THEN KvSet(y_kv, entries) \cup {marker}
                         ELSE KvSet(y_kv, SubSeq(entries, 1, stored))
              /\ IF stored = Len(entries) + 1
                 THEN y_pc' = "while" /\ UNCHANGED y_result
                 ELSE IF stored = Len(entries)
                 THEN y_pc' = "returned" /\ y_result' = Err("kv.set")
                 ELSE y_pc' = "panic_set" /\ UNCHANGED y_result
    /\ UNCHANGED <<y_boot, y_retries, y_requests, y_witness>>
    /\ UNCHANGED <<y_start, notPayload>>

(***************************************************************************)
(* Claims about the guest.                                                 *)
(***************************************************************************)
\* every shard of the witness has been passed by the loading loop
AllShardsLoaded == g_i > Len(preimages)

\* C1: per witness entry the order Loaded -> Validated -> Served holds:
\* validate_preimages runs after every deferred shard was loaded, the oracle
\* reaches the stitching client (and serves) only after it succeeded on the
\* whole store, and when it fails the guest aborts with nothing served, no
\* journal produced and nothing committed.
C1_ValidatedBeforeServed ==
    /\ g_validated => AllShardsLoaded /\ ValidatePreimages(preimages)
    /\ g_pc \in {"stitching", "check_claim", "done", "panic_premature"} => g_validated
    /\ g_served > 0 => g_validated
    /\ g_journal # NoJournal => g_validated
    /\ g_committed # <<>> => g_validated
    /\ g_pc = "panic_validate" =>
          /\ ~ValidatePreimages(preimages)
          /\ g_served = 0
          /\ g_journal = NoJournal
          /\ g_committed = <<>>

\* a run with a deferred shard that was loaded, validated, served and whose
\* journal was committed
C1_Witness ==
    /\ g_pc = "done"
    /\ \E i \in DOMAIN shardStream : shardStream[i] # <<>>
    /\ g_served = PreimageCount(preimages)
    /\ g_served > 0
    /\ g_committed # <<>>

(***************************************************************************)
(* Claims about the proving backends.                                      *)
(***************************************************************************)
\* C2 (as stated): no proof is persisted unless it was first verified
\* against the FPVM image id, whichever backend produced it (local zkVM,
\* remote service, market including its dev-mode seal).
C2_PersistedOnlyIfVerified ==
    p_file # NoProof => p_file.verified

\* C2 (amended): a proof of the local zkVM path or of the remote-service path
\* (STARK or Groth16) is persisted only after it was verified against the
\* FPVM image id; only the market path persists a seal, which no local
\* verification precedes.
C2_ReceiptsPersistedOnlyIfVerified ==
    p_file # NoProof =>
        /\ p_backend \in {"local", "remote"} =>
              /\ p_file.kind \in {"succinct", "groth16"}
              /\ p_file.verified
              /\ p_file.valid
        /\ p_backend = "market" => p_file.kind = "seal" /\ ~p_file.verified

\* a Groth16 receipt of the remote service was verified and persisted
C2_Witness ==
    /\ p_backend = "remote"
    /\ p_file # NoProof
    /\ p_file.kind = "groth16"
    /\ p_file.verified

\* C25: remote-service session protocol: the proving session is created
\* only after the image and the input were uploaded; a RUNNING status leads
\* to another poll, SUCCEEDED to the download and verification of the
\* receipt, any other status to failure; the Groth16 session is created only
\* if prove_snark is set and only after the STARK session succeeded and its
\* receipt verified, and never when prove_snark is unset.
C25_SessionProtocol ==
    /\ [](p_backend = "remote" =>
            /\ "create_session" \in p_service =>
                  {"upload_img", "upload_input"} \subseteq p_service
            /\ "stark_running" \in p_service => "create_session" \in p_service
            /\ "download" \in p_service => "stark_succeeded" \in p_service
            /\ "verify" \in p_service => "download" \in p_service
            /\ "stark_failed" \in p_service =>
                  /\ p_pc \in {"returned", "done"}
                  /\ p_result.tag = "Err"
                  /\ "download" \notin p_service
            /\ "create_snark" \in p_service =>
                  /\ p_prove_snark
                  /\ {"stark_succeeded", "verify"} \subseteq p_service
            /\ ~p_prove_snark => "create_snark" \notin p_service
            /\ (p_result.tag = "Ok" /\ ~p_prove_snark) => "verify" \in p_service
            /\ (p_result.tag = "Ok" /\ p_prove_snark) =>
                  {"create_snark", "snark_succeeded", "snark_verify"}
                      \subseteq p_service)
    /\ [][p_backend = "remote" =>
            /\ p_service \subseteq p_service'
            /\ ("create_session" \in p_service' \ p_service) =>
                  {"upload_img", "upload_input"} \subseteq p_service
            /\ ("create_snark" \in p_service' \ p_service) =>
                  {"stark_succeeded", "verify"} \subseteq p_service
            /\ (p_pc = "bonsai_poll" /\ "stark_running" \in p_service' \ p_service) =>
                  p_pc' = "bonsai_poll"
            /\ (p_pc = "bonsai_poll" /\ "stark_succeeded" \in p_service') =>
                  p_pc' = "bonsai_download"]_proveVars

\* a STARK session was polled while running, succeeded, its receipt verified,
\* and the Groth16 session wrapped it
C25_Witness ==
    /\ p_backend = "remote"
    /\ p_result.tag = "Ok"
    /\ {"stark_running", "stark_succeeded", "verify", "create_snark",
        "snark_verify"} \subseteq p_service

\* the nonces the lookback walks through: wallet nonce - (i + 1), not below
\* zero, for i below the lookback and not above the wallet nonce
C27_Walked ==
    {SaturatingSub(p_wallet_nonce, i + 1) :
        i \in {k \in 0..(p_lookback - 1) : k <= p_wallet_nonce}}

\* what only a new request needs
C27_NewRequestWork == {"preflight", "upload_image", "upload_input", "submit_request"}

\* C27: market lookback: the nonces examined are among the last `lookback`
\* nonces of the wallet; once one of them shows a submitted request with the
\* current requirements, that request's fulfillment is awaited and its seal
\* returned with no preflight, no upload and no new request; a new request
\* is submitted only after every nonce of the walk was examined and none
\* showed such a request.
C27_LookbackBeforePosting ==
    (p_backend = "market" /\ ~p_dev_mode) =>
        /\ \A e \in p_examined :
              /\ e.nonce \in C27_Walked
              /\ e.nonce >= p_wallet_nonce - p_lookback
              /\ e.nonce < p_wallet_nonce \/ e.nonce = 0
              /\ e.found # "none" => e.found = p_requests[e.nonce]
        /\ (\E e \in p_examined : e.found = "same") =>
              /\ p_service \cap C27_NewRequestWork = {}
              /\ p_awaited \in C27_Walked
              /\ p_requests[p_awaited] = "same"
              /\ Examined(p_awaited, "same") \in p_examined
              /\ \A e \in p_examined :
                    e.found = "same" => e.nonce = p_awaited
              /\ \A e \in p_examined : e.nonce >= p_awaited
              /\ p_pc \in {"boundless_wait", "returned", "done"}
        /\ (p_awaited # -1 /\ "submit_request" \notin p_service) =>
              /\ Examined(p_awaited, "same") \in p_examined
              /\ p_requests[p_awaited] = "same"
        /\ p_service \cap C27_NewRequestWork # {} =>
              /\ \A e \in p_examined : e.found # "same"
              /\ \A n \in C27_Walked : \E e \in p_examined : e.nonce = n
        /\ "submit_request" \in p_service =>
              /\ {"upload_image", "upload_input"} \subseteq p_service
              /\ p_awaited = p_wallet_nonce
        /\ (p_pc \in {"returned", "done"} /\ p_result.tag = "Ok") =>
              /\ "fulfilled" \in p_service
              /\ p_awaited # -1

\* the lookback passed over a request with other requirements and found one
\* with the current ones, whose seal was returned
C27_Witness ==
    /\ p_backend = "market"
    /\ p_result.tag = "Ok"
    /\ "fulfilled" \in p_service
    /\ "submit_request" \notin p_service
    /\ \E e \in p_examined : e.found = "other"
    /\ p_awaited = 0
    /\ p_wallet_nonce = 2

\* C28: local backend error classification: with skip_await_proof set,
\* NotAwaitingProof is returned before any proving work starts; a failure of
\* execution or proving is an ExecutionError; a failure to join the blocking
\* task or to verify the receipt is an OtherError; a receipt is returned
\* only when none of these occurred, and then it is verified.
C28_LocalErrorKinds ==
    p_backend = "local" =>
        /\ p_skip_await =>
              /\ p_service = {}
              /\ p_result \in {Pending, Err("NotAwaitingProof")}
              /\ p_pc \in {"returned", "done"} => p_result = Err("NotAwaitingProof")
        /\ p_result = Err("NotAwaitingProof") => p_skip_await
        /\ "prove_failed" \in p_service => p_result = Err("ExecutionError")
        /\ "join_failed" \in p_service => p_result = Err("OtherError")
        /\ "verify_failed" \in p_service => p_result = Err("OtherError")
        /\ p_result = Err("ExecutionError") => "prove_failed" \in p_service
        /\ p_result = Err("OtherError") =>
              p_service \cap {"join_failed", "verify_failed"} # {}
        /\ p_result.tag = "Ok" =>
              /\ ~p_skip_await
              /\ p_service = {"spawn_blocking", "proved", "verified"}
              /\ p_result.proof.verified

\* each kind of failure of the local backend has been seen: this one is the
\* ExecutionError of a proving task that was spawned
C28_Witness ==
    /\ p_backend = "local"
    /\ ~p_skip_await
    /\ "spawn_blocking" \in p_service
    /\ "prove_failed" \in p_service
    /\ p_result = Err("ExecutionError")
    /\ p_pc = "done"

\* C29 (as stated): when the remote proving session ends in a status that is
\* neither RUNNING nor SUCCEEDED, run_bonsai_client returns ExecutionError.
C29_RemoteExecutionError ==
    (p_backend = "remote" /\ "stark_failed" \in p_service
        /\ p_pc \in {"returned", "done"}) =>
        p_result = Err("ExecutionError")


\* C36 (as stated): the market lookback examines only nonces strictly below
\* the wallet's transaction count N, each at most once, so that it takes no
\* more turns than there are such nonces and none when N = 0.
C36_OnlyEarlierNoncesOnce ==
    (p_backend = "market" /\ ~p_dev_mode) =>
        /\ \A e \in p_examined : e.nonce < p_wallet_nonce
        /\ p_i <= p_wallet_nonce
        /\ p_wallet_nonce = 0 => p_examined = {}

SameJournalInputs(a, b) ==
    /\ a.payout_recipient = b.payout_recipient
    /\ a.precondition_validation_data = b.precondition_validation_data
    /\ a.l1_head = b.l1_head
    /\ a.agreed_l2_output_root = b.agreed_l2_output_root
    /\ a.claimed_l2_output_root = b.claimed_l2_output_root
    /\ a.claimed_l2_block_number = b.claimed_l2_block_number
    /\ a.config_hash = b.config_hash
    /\ a.fpvm_image_id = b.fpvm_image_id

\* C4: journal determinism: two proof requests with the same payout
\* recipient, precondition data, L1 head, agreed root, claimed root, claimed
\* block number, config hash and image id have the same journal and the
\* same proof file names, whatever their proposal index and agreed L2 head
\* hash are.
C4_JournalDeterminism ==
    n_done /\ SameJournalInputs(n_req[1], n_req[2]) =>
        /\ n_journal[1] = n_journal[2]
        /\ EncodePacked(n_journal[1]) = EncodePacked(n_journal[2])
        /\ n_file[1] = n_file[2]
        /\ n_host_file[1] = n_host_file[2]

\* two requests that differ in index and agreed head hash only, named alike
C4_Witness ==
    /\ n_done
    /\ SameJournalInputs(n_req[1], n_req[2])
    /\ n_req[1].index # n_req[2].index
    /\ n_req[1].agreed_l2_head_hash # n_req[2].agreed_l2_head_hash
    /\ n_file[1] = n_file[2]

(***************************************************************************)
(* Claims about the worker pool.                                           *)
(***************************************************************************)
\* the Proposal messages on the request channel up to the first message of
\* another kind
RECURSIVE ProposalPrefix(_)
ProposalPrefix(log) ==
    IF log = <<>> \/ Head(log).kind # "Proposal"
    THEN <<>>
    ELSE <<Head(log)>> \o ProposalPrefix(Tail(log))

IsPrefix(a, b) == Len(a) <= Len(b) /\ \A k \in 1..Len(a) : a[k] = b[k]

Increasing(q) == \A i, j \in 1..Len(q) : i < j => q[i].eid < q[j].eid

\* C5: the task generator receives the Proposal messages in the order they
\* were sent, sends exactly one task per message received, in the same
\* order, carrying the message's proposal index and the file name of its
\* journal, and the task channel hands tasks out in the order of the sends.
C5_OneTaskPerProposalInOrder ==
    /\ IsPrefix(q_received, ProposalPrefix(q_env_log))
    /\ Len(q_issued) = Len(q_received) - (IF q_gen_pc = "send" THEN 1 ELSE 0)
    /\ \A k \in 1..Len(q_issued) :
          /\ q_issued[k].task.proposal_index = q_received[k].index
          /\ q_issued[k].task.proof_file_name =
                 ProofFileName(ProofJournalOf(q_received[k]))
          /\ \A l \in 1..Len(q_issued) : k < l => q_issued[k].eid < q_issued[l].eid
    /\ Increasing(q_task_chan)
    /\ \A i, j \in 1..Len(q_delivered) : i < j => q_delivered[i] < q_delivered[j]

\* two tasks were issued for proposals 1 and 2 in this order and were
\* completed in the opposite order
C5_Witness ==
    /\ Len(q_issued) = 2
    /\ q_issued[1].task.proposal_index = 1
    /\ q_issued[2].task.proposal_index = 2
    /\ q_completed = <<2, 1>>

Proving == {w \in 1..Len(q_worker) : q_worker[w].pc = "proving"}

\* C6: no more workers exist than configured, and exactly that many once
\* the pool is spawned; hence no more tasks than that are being proven at a
\* time; each send on the task channel is either still queued or was handed
\* to exactly one worker, and no two workers hold the same send.
C6_WorkerPool ==
    /\ Len(q_worker) <= q_n
    /\ q_gen_pc # "spawn" => Len(q_worker) = q_n
    /\ Cardinality(Proving) <= q_n
    /\ \A e \in 1..(q_next_eid - 1) :
          Cardinality({k \in 1..Len(q_task_chan) : q_task_chan[k].eid = e})
          + Cardinality({k \in 1..Len(q_delivered) : q_delivered[k] = e}) = 1
    /\ \A v, w \in Proving : v # w => q_worker[v].item.eid # q_worker[w].item.eid
    /\ \A w \in Proving :
          \E k \in 1..Len(q_delivered) : q_delivered[k] = q_worker[w].item.eid

\* every configured worker is proving a task of its own while a further
\* task waits in the channel
C6_Witness ==
    /\ q_gen_pc # "spawn"
    /\ Cardinality(Proving) = q_n
    /\ q_task_chan # <<>>

\* C7: the task channel is closed only after the generator loop ended, and
\* handle_proof_requests has returned only when the task channel is closed,
\* every spawned worker has ended and every task sent before the close was
\* handed to a worker.
C7_Shutdown ==
    /\ q_task_closed => q_gen_pc \in {"join", "returned"}
    /\ q_gen_pc = "returned" =>
          /\ q_task_closed
          /\ Len(q_worker) = q_n
          /\ \A w \in 1..Len(q_worker) : q_worker[w].pc = "exited"
          /\ q_task_chan = <<>>
          /\ \A e \in 1..(q_next_eid - 1) :
                \E k \in 1..Len(q_delivered) : q_delivered[k] = e

\* handle_proof_requests returned after the request channel was closed, and
\* a task queued before the close was taken by a worker after it
C7_Witness ==
    /\ q_gen_pc = "returned"
    /\ q_req_closed
    /\ q_late
    /\ Len(q_delivered) = MaxMessages

\* the capacity the task channel would have were it bounded
AssumedCapacity == 1

\* C8 (as stated): the number of queued tasks never exceeds a fixed
\* capacity.
C8_TaskChannelBounded ==
    Len(q_task_chan) <= AssumedCapacity

\* C8 (amended): the task channel is unbounded: the producer never waits on
\* it, a send is possible whenever the generator holds a task, and the
\* number of queued tasks is limited only by the number of messages received
\* and of tasks re-enqueued.
C8_TaskChannelUnbounded ==
    /\ q_gen_pc = "send" => ENABLED GenSend
    /\ Len(q_task_chan) <= Len(q_received) + q_retries

\* the generator sends a further task while the queue already holds as many
\* tasks as the assumed capacity
C8_Witness ==
    /\ q_gen_pc = "send"
    /\ ~q_task_closed
    /\ Len(q_task_chan) >= AssumedCapacity


\* C37 (as stated): the task generator loop stops, and the task channel is
\* closed, only when the request channel is closed: while it is open the
\* generator is still accepting messages, whatever it has received.
C37_StopsOnlyWhenClosed ==
    /\ q_gen_pc \in {"close", "join", "returned"} => q_req_closed
    /\ q_task_closed => q_req_closed

(***************************************************************************)
(* Claims about the proof request builder.                                 *)
(***************************************************************************)
\* C9: when request_fault_proof has run for a proposal whose divergence
\* point is d, it has sent exactly one Proposal message if it returned Ok
\* and none otherwise; the message's agreed block (through its hash) is
\* parent.output_block_number + d * output_block_span, its claimed block is
\* one output_block_span further and not beyond the proposal's terminal
\* block, both roots are the canonical ones the output cache holds at these
\* heights, the claimed one differing from the proposal's claim, and it
\* carries no precondition data.
C9_FaultRequest ==
    (r_pc = "done" /\ r_kind = "fault") =>
        IF r_result.tag = "Ok"
        THEN LET d == DivergencePoint(r_parent, r_proposal, r_deploy)
                 agreed == r_parent.output_block_number
                               + d * r_deploy.output_block_span
                 claimed == agreed + r_deploy.output_block_span
             IN  /\ HasFault(r_parent, r_proposal, r_deploy)
                 /\ Len(r_channel) = 1
                 /\ r_channel[1].kind = "Proposal"
                 /\ r_channel[1].index = r_proposal.index
                 /\ r_channel[1].l1_head = r_l1_head
                 /\ r_channel[1].agreed_l2_head_hash = L2Hash(agreed)
                 /\ r_channel[1].agreed_l2_output_root = r_outputs[agreed]
                 /\ r_channel[1].agreed_l2_output_root = Canon(agreed)
                 /\ r_channel[1].claimed_l2_block_number = claimed
                 /\ claimed <= r_proposal.output_block_number
                 /\ r_channel[1].claimed_l2_output_root = r_outputs[claimed]
                 /\ r_channel[1].claimed_l2_output_root = Canon(claimed)
                 /\ r_channel[1].claimed_l2_output_root # r_proposal.outputs[d + 1]
                 /\ r_channel[1].precondition_validation_data = NoData
        ELSE r_channel = <<>>

\* a fault proof was requested for a proposal whose first output is right
\* and whose second is wrong
C9_Witness ==
    /\ r_pc = "done"
    /\ r_kind = "fault"
    /\ r_result.tag = "Ok"
    /\ DivergencePoint(r_parent, r_proposal, r_deploy) = 1
    /\ Len(r_channel) = 1

\* C10: when request_validity_proof has run, it has sent exactly one
\* Proposal message if it returned Ok and none otherwise; the message
\* carries Validity data exactly when proposal_output_count > 1, holding
\* parent.output_block_number, the deployment's proposal_output_count and
\* output_block_span and one pair per blob of the proposal, in the order of
\* the blobs, of the L1 block following the proposal's L1 head and the
\* blob's hash with the blob's own index; the agreed root is the parent's
\* output root and the claimed block and root are the proposal's.
C10_ValidityRequest ==
    (r_pc = "done" /\ r_kind = "validity") =>
        IF r_result.tag = "Ok"
        THEN LET data == r_channel[1].precondition_validation_data
                 next == L1Block(L1Number(r_proposal.l1_head) + 1)
             IN  /\ Len(r_channel) = 1
                 /\ r_channel[1].kind = "Proposal"
                 /\ r_channel[1].index = r_proposal.index
                 /\ r_channel[1].l1_head = r_l1_head
                 /\ r_channel[1].agreed_l2_head_hash =
                        L2Hash(r_parent.output_block_number)
                 /\ r_channel[1].agreed_l2_output_root = r_parent.output_root
                 /\ r_channel[1].claimed_l2_block_number =
                        r_proposal.output_block_number
                 /\ r_channel[1].claimed_l2_output_root = r_proposal.output_root
                 /\ (data.kind = "Validity") = (r_deploy.proposal_output_count > 1)
                 /\ (data = NoData) = (r_deploy.proposal_output_count <= 1)
                 /\ data.kind = "Validity" =>
                       /\ data.proposal_l2_head_number = r_parent.output_block_number
                       /\ data.proposal_output_count = r_deploy.proposal_output_count
                       /\ data.output_block_span = r_deploy.output_block_span
                       /\ Len(data.blob_hashes) = Len(r_proposal.io_blobs)
                       /\ \A k \in 1..Len(r_proposal.io_blobs) :
                             /\ data.blob_hashes[k].blob_hash.hash =
                                    r_proposal.io_blobs[k].hash
                             /\ data.blob_hashes[k].blob_hash.index =
                                    r_proposal.io_blobs[k].blob.index
                             /\ data.blob_hashes[k].block_ref.hash = next.hash
                             /\ data.blob_hashes[k].block_ref.number = next.number
                             /\ data.blob_hashes[k].block_ref.parent_hash =
                                    r_proposal.l1_head
                             /\ data.blob_hashes[k].block_ref.timestamp =
                                    next.timestamp
        ELSE r_channel = <<>>

\* a validity proof was requested for a proposal of several outputs with
\* two blobs whose indices differ from their positions
C10_Witness ==
    /\ r_pc = "done"
    /\ r_kind = "validity"
    /\ r_result.tag = "Ok"
    /\ r_deploy.proposal_output_count > 1
    /\ Len(r_proposal.io_blobs) = 2
    /\ Len(r_channel) = 1
    /\ r_channel[1].precondition_validation_data.kind = "Validity"

(***************************************************************************)
(* Claims about the fault builder.                                         *)
(***************************************************************************)
\* the address the factory holds for the faulty proposal's root and block,
\* the fault parent and duplication counter c
SiblingAt(c) ==
    Games(f_factory, f_plan.proposed_output_root,
          ExtraData(f_plan.proposed_block_number, f_args.fault_parent, c))

C11_SearchFromZeroByOne ==
    /\ f_pc \in {"search", "submit", "done"} =>
          /\ f_observed = 0..(f_dupe_counter - 1)
          /\ \A c \in f_observed : SiblingAt(c) # 0
    /\ f_pc \in {"submit", "done"} =>
          /\ f_extra_data = ExtraData(f_plan.proposed_block_number,
                                      f_args.fault_parent, f_dupe_counter)
          /\ \/ SiblingAt(f_dupe_counter) = 0
             \/ \E g \in f_factory :
                   /\ g.by \in {"fault", "other"}
                   /\ g.address = SiblingAt(f_dupe_counter)
    /\ f_outcome = "submitted" =>
          \E g \in f_factory :
              /\ g.by = "fault"
              /\ g.extra_data = f_extra_data
              /\ g.address = SiblingAt(f_dupe_counter)

\* C11: the search starts at counter 0 and goes up by one: every counter
\* below the current one was answered with a nonzero address, the search
\* ends with the first counter answered with the zero address, the
\* submission carries the extra data of that counter, and the search ends.
C11_SiblingSearch ==
    /\ []C11_SearchFromZeroByOne
    /\ (f_pc = "search") ~> (f_pc # "search")

\* counters 0 and 1 were taken, counter 2 was free and the proposal was
\* submitted with counter 2
C11_Witness ==
    /\ f_pc = "done"
    /\ f_outcome = "submitted"
    /\ f_observed = {0, 1}
    /\ f_dupe_counter = 2

\* C12: every registered game has a nonzero address, no two registered
\* games share root and extra data, distinct games have distinct
\* addresses, and after a successful submission with counter d the factory
\* answers the fault builder's own game for d and another address or none
\* for every other counter.
C12_ExtraDataUnique ==
    /\ \A g \in f_factory : g.address # 0
    /\ \A g1, g2 \in f_factory :
          /\ (g1.root = g2.root /\ g1.extra_data = g2.extra_data) => g1 = g2
          /\ g1 # g2 => g1.address # g2.address
    /\ f_outcome = "submitted" =>
          /\ SiblingAt(f_dupe_counter) # 0
          /\ \E g \in f_factory :
                g.by = "fault" /\ g.address = SiblingAt(f_dupe_counter)
          /\ \A c \in 0..(MaxSiblings + MaxOthers) :
                c # f_dupe_counter => SiblingAt(c) # SiblingAt(f_dupe_counter)

\* the fault builder submitted after another proposer had registered a
\* sibling during its search, beside an earlier sibling
C12_Witness ==
    /\ f_outcome = "submitted"
    /\ \E g \in f_factory : g.by = "other"
    /\ \E g \in f_factory : g.by = "earlier"

\* C13 (as stated): when fault() has ended after its propose reverted on a
\* duplicate, it has submitted again with a higher counter, so that its
\* proposal is registered.
C13_RetryOnDuplicate ==
    (f_pc = "done" /\ f_outcome = "duplicate") =>
        \E g \in f_factory : g.by = "fault"

\* C14 (as stated): a terminal fault, fault_offset = proposal_output_count,
\* is shifted back by one output_block_span, whatever the parent block.
C14_TerminalNormalization ==
    (f_pc \notin {"start", "failed"}
        /\ f_args.fault_offset = f_chain.proposal_output_count) =>
        /\ f_plan.faulty_block_number =
               f_chain.parent_block_number
                   + f_chain.proposal_output_count * f_chain.output_block_span
        /\ f_plan.normalized_fault_block_number =
               f_plan.faulty_block_number - f_chain.output_block_span

\* C15 (as stated): a fault before the terminal block is an output fault
\* and is not shifted; a fault is terminal only at
\* fault_offset = proposal_output_count.
C15_OutputFaultUnshifted ==
    f_pc \in {"fetch", "search", "submit", "done"} =>
        /\ (1 <= f_args.fault_offset
               /\ f_args.fault_offset < f_chain.proposal_output_count) =>
              /\ f_plan.is_output_fault
              /\ f_plan.normalized_fault_block_number = f_plan.faulty_block_number
        /\ ~f_plan.is_output_fault =>
              f_args.fault_offset = f_chain.proposal_output_count

\* C16: once the results are joined and kept, io_field_elements has
\* FIELD_ELEMENTS_PER_BLOB - 1 elements and the i-th is that of block
\* parent + i * output_block_span: the faulty claim's if the block is the
\* normalized fault block, else the canonical output's if the block is
\* before the proposed block, else that of zero; whatever the order in which
\* the fetch tasks completed.
C16_BlobEncoding ==
    f_pc \in {"search", "submit", "done"} =>
        /\ Len(f_elements) = FieldElementsPerBlob - 1
        /\ \A i \in 1..(FieldElementsPerBlob - 1) :
              LET block == f_chain.parent_block_number
                               + i * f_chain.output_block_span
              IN  f_elements[i] =
                      IF block = f_plan.normalized_fault_block_number
                      THEN HashToFe(f_plan.faulty_root_claim)
                      ELSE IF block < f_plan.proposed_block_number
                      THEN HashToFe(OutputAtBlock(block))
                      ELSE HashToFe(0)

\* the tasks completed last to first and the elements are in position
\* order: the faulty claim, a canonical output and a zero among them
C16_Witness ==
    /\ f_pc = "search"
    /\ Len(f_order) > 1
    /\ \A k \in 1..(Len(f_order) - 1) : f_order[k] > f_order[k + 1]
    /\ \E i \in 1..Len(f_elements) : f_elements[i] = HashToFe(f_plan.faulty_root_claim)
    /\ \E i \in 1..Len(f_elements) : f_elements[i] = HashToFe(0)
    /\ \E i \in 1..Len(f_elements) :
          /\ f_elements[i] # HashToFe(f_plan.faulty_root_claim)
          /\ f_elements[i] # HashToFe(0)

\* the value of a big-endian byte string of eight bytes, or -1 when it is
\* beyond three bytes
FromBigEndian(bytes) ==
    IF \E k \in 1..5 : bytes[k] # 0
    THEN -1
    ELSE 65536 * bytes[6] + 256 * bytes[7] + bytes[8]

ExtraTriples == {0, 1, 2, 256} \X {0, 1, 2, 256} \X (0..2)

\* C17: the extra data the search ends with is 24 bytes: the big-endian
\* eight bytes of the proposed block number, of the parent index and of the
\* duplication counter; block 0x100, parent 2 and counter 0 give the bytes
\* of the example; no other triple gives the same extra data.
C17_ExtraDataPacked ==
    f_pc \in {"submit", "done"} =>
          /\ Len(f_extra_data) = 24
          /\ \A k \in 1..24 : f_extra_data[k] \in 0..255
          /\ FromBigEndian(SubSeq(f_extra_data, 1, 8)) = f_plan.proposed_block_number
          /\ FromBigEndian(SubSeq(f_extra_data, 9, 16)) = f_args.fault_parent
          /\ FromBigEndian(SubSeq(f_extra_data, 17, 24)) = f_dupe_counter
          /\ (f_plan.proposed_block_number = 256 /\ f_args.fault_parent = 2
                 /\ f_dupe_counter = 0) =>
                f_extra_data = <<0, 0, 0, 0, 0, 0, 1, 0,
                                 0, 0, 0, 0, 0, 0, 0, 2,
                                 0, 0, 0, 0, 0, 0, 0, 0>>
          /\ \A t \in ExtraTriples :
                ExtraData(t[1], t[2], t[3]) = f_extra_data =>
                    t = <<f_plan.proposed_block_number, f_args.fault_parent,
                          f_dupe_counter>>

\* the extra data of block 0x100, parent 2 and counter 0 was computed
C17_Witness ==
    /\ f_pc = "submit"
    /\ f_plan.proposed_block_number = 256
    /\ f_args.fault_parent = 2
    /\ f_dupe_counter = 0
    /\ f_extra_data[7] = 1


\* C38: fault() is all-or-nothing with respect to the field-element tasks:
\* when a task failed or could not be joined, fault() returns an error with
\* no sidecar built, no duplicate queried and nothing submitted; the sidecar
\* is built only from all FIELD_ELEMENTS_PER_BLOB - 1 elements, each at the
\* position of its task.
C38_AllOrNothing ==
    /\ [](f_pc \in {"search", "submit", "done"} =>
             f_elements = [i \in 1..(FieldElementsPerBlob - 1) |->
                              FieldElement(i, f_chain, f_plan)])
    /\ [](f_pc = "failed" =>
             /\ f_outcome = "none"
             /\ f_observed = {}
             /\ f_dupe_counter = 0
             /\ \A g \in f_factory : g.by = "earlier")
    /\ [][(f_pc = "fetch" /\ f_pc' # "fetch") =>
             IF \E i \in 1..Len(f_tasks) : f_tasks[i].tag = "Err"
             THEN f_pc' = "failed" /\ f_factory' = f_factory
             ELSE f_pc' = "search"]_faultVars

\* fault() returned an error after all tasks but one had delivered their
\* field elements
C38_Witness ==
    /\ f_pc = "failed"
    /\ Len(f_elements) = FieldElementsPerBlob - 2

(***************************************************************************)
(* Claims about the proposal timing.                                       *)
(***************************************************************************)
\* C18: allows_proposal(H, t) is true exactly when
\* t >= genesis_time + H * block_time + proposal_gap + 1; time_to_propose is
\* the shortfall to that bound, or 0; it is 0 exactly when the proposal is
\* allowed; and once allowed at some time, the proposal is allowed at every
\* later time.
C18_ProposalAdmissibility ==
    LET bound == d_deploy.genesis_time + d_block * d_deploy.block_time
                     + d_deploy.proposal_gap + 1
    IN  d_checked =>
            /\ d_allows = (d_time >= bound)
            /\ d_wait = (IF bound > d_time THEN bound - d_time ELSE 0)
            /\ d_wait >= 0
            /\ (d_wait = 0) = d_allows
            /\ (d_first # -1 /\ d_time >= d_first) => d_allows

\* the proposal of a block above 0 is allowed at a time after the first one
\* at which it was found allowed
C18_Witness ==
    /\ d_checked
    /\ d_allows
    /\ d_first > 0
    /\ d_time > d_first
    /\ d_block > 0

(***************************************************************************)
(* Claims about the blob mathematics.                                      *)
(***************************************************************************)
\* C19: blob_fe_proof returns an opening only if the opening verifies
\* against the blob's commitment at root_of_unity(index): a returned opening
\* verifies and opens to the blob's element at index, and an opening that
\* does not verify yields an error.
C19_SelfVerifiedOpening ==
    v_pc = "returned" =>
        /\ v_result.tag = "Ok" =>
              /\ VerifyKzgProof(Commitment(v_blob), RootOfUnity(v_index),
                                v_result.proof.value, v_result.proof.proof)
              /\ v_result.proof.value = v_blob[v_index + 1]
        /\ (v_opening # NoOpening
               /\ ~VerifyKzgProof(Commitment(v_blob), RootOfUnity(v_index),
                                  v_opening.value, v_opening.proof)) =>
              v_result.tag = "Err"

\* an opening that verifies was returned for an element that is 1
C19_Witness ==
    /\ v_pc = "returned"
    /\ v_result.tag = "Ok"
    /\ v_result.proof.value = 1
    /\ v_index > 0

\* C20 (as stated): for all i and k, reversing twice gives i.
C20_InvolutionForAll ==
    v_pc = "reversed_twice" => v_twice = v_index

\* C20 (amended): for every order k of at least 1 and at most the width,
\* the first reversal is the mirror image of the low k bits of i, and
\* reversing twice gives i modulo 2^k, hence i itself when i < 2^k.
C20_InvolutionBelowOrder ==
    (v_pc = "reversed_twice" /\ v_order_po2 >= 1) =>
        /\ v_once < Pow2(v_order_po2)
        /\ v_twice = v_index % Pow2(v_order_po2)
        /\ v_index < Pow2(v_order_po2) => v_twice = v_index

\* an index of three bits that is not its own mirror image was reversed
\* twice
C20_Witness ==
    /\ v_pc = "reversed_twice"
    /\ v_order_po2 = 3
    /\ v_index < Pow2(v_order_po2)
    /\ v_once # v_index
    /\ v_twice = v_index

\* bit j of x
BitOf(x, j) == (x \div Pow2(j)) % 2

\* the root of unity that root_of_unity raises to a power
BlobRoot == PowMod(PrimitiveRoot, (BlsModulus - 1) \div BlobLength, BlsModulus)

\* x is a primitive n-th root of unity, n a power of two
IsPrimitiveRoot(x, n) ==
    /\ PowMod(x, n, BlsModulus) = 1
    /\ PowMod(x, n \div 2, BlsModulus) # 1

\* the number below 2^k whose k bits are those of i in reverse
Mirror(i, k) ==
    CHOOSE r \in 0..(Pow2(k) - 1) :
        \A j \in 0..(k - 1) : BitOf(r, j) = BitOf(i, k - 1 - j)

\* C21: for every i below 2^k, reverse_bits(i, k) is the number whose k-bit
\* representation is that of i reversed (1 gives 2^(k-1), 3 gives
\* 3 * 2^(k-2), 2^k - 1 gives itself), and root_of_unity(i) is the
\* primitive root of the blob's order raised to exactly this number.
C21_BitReversedExponent ==
    /\ (v_pc \in {"reversed", "reversed_twice"} /\ v_order_po2 >= 1
            /\ v_index < Pow2(v_order_po2)) =>
          /\ v_once < Pow2(v_order_po2)
          /\ \A j \in 0..(v_order_po2 - 1) :
                BitOf(v_once, j) = BitOf(v_index, v_order_po2 - 1 - j)
          /\ v_index = 1 => v_once = Pow2(v_order_po2 - 1)
          /\ (v_index = 3 /\ v_order_po2 >= 2) => v_once = 3 * Pow2(v_order_po2 - 2)
          /\ v_index = Pow2(v_order_po2) - 1 => v_once = v_index
    /\ v_opening # NoOpening =>
          /\ IsPrimitiveRoot(BlobRoot, BlobLength)
          /\ v_opening.proof.z = PowMod(BlobRoot, Mirror(v_index, FeOrderPo2), BlsModulus)

\* the opening of element 1 was computed at the root raised to the mirror
\* image of 1, which is not the root itself
C21_Witness ==
    /\ v_pc = "computed"
    /\ v_index = 1
    /\ v_opening.proof.z = PowMod(BlobRoot, Pow2(FeOrderPo2 - 1), BlsModulus)
    /\ v_opening.proof.z # BlobRoot

(***************************************************************************)
(* Claims about the L1 chain provider.                                     *)
(***************************************************************************)
\* a step on which block_info_by_number is called with a number past the
\* cached head's
C22_CalledPastHead ==
    /\ c_pc = "ready"
    /\ c_headers # <<>>
    /\ c_op' = "number"
    /\ c_calls' = c_calls + 1
    /\ c_n' > c_headers[1].inner.number

\* C22: block_info_by_number(n) with n greater than the cached head's number
\* returns BlockNumberPastHead(n, head number) on the spot: no hint is sent,
\* no preimage is read and the header cache stays as it was.
C22_PastHeadRefused ==
    [][C22_CalledPastHead =>
          /\ c_pc' = "ready"
          /\ c_result' = BlockNumberPastHead(c_n', c_headers[1].inner.number)
          /\ c_hints' = 0
          /\ c_reads' = 0
          /\ c_headers' = c_headers
          /\ c_headers_map' = c_headers_map]_vars

\* a call past the head was refused by a provider that had walked back
\* before
C22_Witness ==
    /\ c_pc = "ready"
    /\ c_op = "number"
    /\ Len(c_headers) > 1
    /\ c_n > c_headers[1].inner.number
    /\ c_result.tag = "Err"
    /\ c_result.error = "BlockNumberPastHead"

\* the header cache is a parent chain that starts at the head
C23_ContiguousCache ==
    /\ Len(c_headers) = MapLen(c_headers_map)
    /\ c_headers # <<>> => c_headers[1].seal = c_l1_head
    /\ \A k \in 1..Len(c_headers) :
          /\ MapHas(c_headers_map, c_headers[k].seal)
          /\ MapGet(c_headers_map, c_headers[k].seal) = k - 1
          /\ k > 1 => c_headers[k].seal = c_headers[k - 1].inner.parent_hash

\* a successful block_info_by_number answers from headers[head number - n],
\* having fetched the ancestors that were missing and no more
C23_AnswerFromCache ==
    (c_pc = "ready" /\ c_op = "number" /\ c_result.tag = "Ok") =>
        LET header_index == c_headers[1].inner.number - c_n
            missing == IF header_index + 1 > c_before
                       THEN header_index + 1 - c_before ELSE 0
        IN  /\ c_n <= c_headers[1].inner.number
            /\ c_result.proof = BlockInfoOf(c_headers[header_index + 1])
            /\ c_result.proof.number = c_n
            /\ Len(c_headers) = c_before + missing
            /\ c_reads = missing
            /\ c_hints = missing

\* the cache only grows: what was cached stays where it was
C23_CacheGrows ==
    /\ Len(c_headers') >= Len(c_headers)
    /\ SubSeq(c_headers', 1, Len(c_headers)) = c_headers
    /\ c_headers_map \subseteq c_headers_map'

\* C23: on a provider created with a non-zero L1 head, whatever calls are
\* made, the header cache is a contiguous parent chain starting at the head
\* (headers[k] is sealed with headers[k-1].parent_hash, headers_map maps the
\* hash of headers[k] to k, both have the same length), the cache only grows,
\* and a successful block_info_by_number(n) returns the BlockInfo of
\* headers[head number - n] after fetching exactly the missing ancestors.
C23_HeaderCacheChain ==
    /\ [](C23_ContiguousCache /\ C23_AnswerFromCache)
    /\ [][C23_CacheGrows]_vars

\* a call walked back two ancestors and a later one was answered from the
\* cache alone
C23_Witness ==
    /\ c_pc = "ready"
    /\ c_op = "number"
    /\ c_result.tag = "Ok"
    /\ Len(c_headers) >= 3
    /\ c_calls = 2
    /\ c_reads = 0
    /\ c_n < c_headers[1].inner.number

\* header_by_hash returned to a caller of the provider
C24_Returned == c_pc = "ready" /\ c_op = "hash"

\* C24: header_by_hash(hash) for a cached hash returns the cached header
\* with no hint sent and nothing read; for an absent hash the L1BlockHeader
\* hint is sent strictly before the keccak256-keyed preimage is read, and
\* what was read is returned decoded, or an Rlp error if it does not decode.
C24_HintBeforeRead ==
    /\ [](/\ c_reads <= c_hints
          /\ (C24_Returned /\ MapHas(c_headers_map, c_fetch)) =>
                /\ c_hints = 0
                /\ c_reads = 0
                /\ c_result =
                      Ok(c_headers[MapGet(c_headers_map, c_fetch) + 1].inner)
          /\ (C24_Returned /\ ~MapHas(c_headers_map, c_fetch)) =>
                /\ c_reads = 1 => c_hints = 1
                /\ c_result.tag = "Ok" =>
                      /\ c_reads = 1
                      /\ HeaderDigest(RlpEncode(c_result.proof)) = c_fetch
                /\ (c_result.tag = "Err" /\ c_reads = 1) =>
                      c_result.error = "Rlp")
    /\ [][(c_pc # "new" /\ c_reads' > c_reads) =>
              (c_pc = "get" /\ c_hints > c_reads)]_chainVars

\* an absent header was hinted, read and returned decoded
C24_Witness ==
    /\ C24_Returned
    /\ ~MapHas(c_headers_map, c_fetch)
    /\ c_result.tag = "Ok"
    /\ c_hints = 1
    /\ c_reads = 1


\* C35 (as stated): block_info_by_number never reads outside the header
\* cache: from every provider state, the empty cache of a zero l1_head
\* included, a call returns Ok or Err and does not abort.
C35_NeverAborts ==
    c_pc # "panicked"

(***************************************************************************)
(* Claims about the stitched proofs.                                       *)
(***************************************************************************)
\* the indices of a sequence of indices
C26_Indices(seq) == {seq[k] : k \in DOMAIN seq}

\* every proof consumed so far went one way, once, in order
C26_ExactlyOnce ==
    /\ Len(s_input) + Len(s_assumptions) = s_i
    /\ C26_Indices(s_input) \cup C26_Indices(s_assumptions) = 1..s_i
    /\ \A j, k \in DOMAIN s_input : j < k => s_input[j] < s_input[k]
    /\ \A j, k \in DOMAIN s_assumptions : j < k => s_assumptions[j] < s_assumptions[k]
    /\ s_pc = "built" => s_i = Len(s_proofs)

\* C26 (as stated): every stitched proof is supplied exactly once in the
\* local and in the remote backend; with force-recursion unset a proof of
\* the zkVM-receipt variant (STARK or Groth16) is an assumption and every
\* other proof is guest input; with force-recursion set every proof is
\* guest input.
C26_ReceiptsAssumed ==
    s_backend \in {"prover_zkvm", "bonsai"} =>
        /\ C26_ExactlyOnce
        /\ \A k \in 1..s_i :
              IF ~s_force /\ s_proofs[k].variant = "ZKVMReceipt"
              THEN k \in C26_Indices(s_assumptions)
              ELSE k \in C26_Indices(s_input)

\* C26 (amended): every stitched proof is supplied exactly once. With
\* force-recursion set, build_zkvm_env and run_bonsai_client write every
\* proof as guest input. With it unset, run_bonsai_client uploads every zkVM
\* receipt as an assumption and writes every other proof, while
\* build_zkvm_env writes a Groth16 receipt as guest input and adds every
\* other receipt as an assumption. run_zkvm_client of bin/client does not
\* look at the switch: a zkVM receipt is an assumption, another proof input.
C26_SuppliedOnce ==
    /\ C26_ExactlyOnce
    /\ \A k \in 1..s_i :
          LET assumed ==
                 CASE s_backend = "prover_zkvm" ->
                         ~s_force /\ s_proofs[k].inner # "Groth16"
                   [] s_backend = "bonsai" ->
                         ~s_force /\ s_proofs[k].variant = "ZKVMReceipt"
                   [] OTHER -> s_proofs[k].variant = "ZKVMReceipt"
          IN  IF assumed
              THEN k \in C26_Indices(s_assumptions) /\ k \notin C26_Indices(s_input)
              ELSE k \in C26_Indices(s_input) /\ k \notin C26_Indices(s_assumptions)

\* build_zkvm_env was given a Groth16 and a succinct receipt without forced
\* recursion: the first was written, the second assumed
C26_Witness ==
    /\ s_pc = "built"
    /\ s_backend = "prover_zkvm"
    /\ ~s_force
    /\ s_proofs = <<ZKVMReceipt("Groth16"), ZKVMReceipt("Succinct")>>
    /\ s_input = <<1>>
    /\ s_assumptions = <<2>>


\* C32 (as stated): the local zkVM backend sets on its executor environment
\* the segment limit that is configured, whatever its value, never a fixed
\* constant.
C32_LimitFromConfig ==
    (s_backend \in {"prover_zkvm", "client_zkvm"} /\ s_pc # "builder") =>
        s_env_po2 = s_segment_limit

C31_First == CHOOSE c \in {k_children[i] : i \in 1..Len(k_children)} :
    \A i \in 1..Len(k_children) :
        c.claimed_l2_block_number <= k_children[i].claimed_l2_block_number

C31_Last == CHOOSE c \in {k_children[i] : i \in 1..Len(k_children)} :
    \A i \in 1..Len(k_children) :
        c.claimed_l2_block_number >= k_children[i].claimed_l2_block_number

\* C31: the child proofs are stitched in the order of increasing claimed
\* block number, an order that looks at that field only; each child's
\* agreed root is the previous child's claimed root, and the journal
\* stitched from all of them has the first child's agreed root and the last
\* child's claimed root and claimed block number.
C31_StitchingComposition ==
    /\ \A i, j \in 1..Len(k_children) :
          /\ ProveArgsCmp(k_children[i], k_children[j]) =
                 CmpU64(k_children[i].claimed_l2_block_number,
                        k_children[j].claimed_l2_block_number)
          /\ ProveArgsEq(k_children[i], k_children[j]) <=>
                 ProveArgsCmp(k_children[i], k_children[j]) = "Equal"
    /\ k_pc \in {"stitch", "done"} =>
          /\ Len(k_sorted) = Len(k_children)
          /\ \A c \in {k_children[i] : i \in 1..Len(k_children)} :
                \E i \in 1..Len(k_sorted) : k_sorted[i] = c
          /\ \A i \in 1..(Len(k_sorted) - 1) :
                /\ k_sorted[i].claimed_l2_block_number
                       < k_sorted[i + 1].claimed_l2_block_number
                /\ k_sorted[i + 1].agreed_l2_output_root
                       = k_sorted[i].claimed_l2_output_root
    /\ k_pc # "refused"
    /\ k_pc = "done" =>
          /\ k_journal.agreed_l2_output_root = C31_First.agreed_l2_output_root
          /\ k_journal.claimed_l2_output_root = C31_Last.claimed_l2_output_root
          /\ k_journal.claimed_l2_block_number = C31_Last.claimed_l2_block_number
          /\ k_journal.agreed_l2_output_root = k_sorted[1].agreed_l2_output_root
          /\ k_journal.claimed_l2_output_root =
                 k_sorted[Len(k_sorted)].claimed_l2_output_root

\* three children collected with the last one first were stitched
C31_Witness ==
    /\ k_pc = "done"
    /\ Len(k_children) = 3
    /\ ProveArgsCmp(k_children[1], k_children[2]) = "Greater"
    /\ ProveArgsCmp(k_children[1], k_children[3]) = "Greater"
    /\ k_i = 3

(***************************************************************************)
(* Claims about prematurity.                                               *)
(***************************************************************************)
\* C34: prematurity cannot be proven: the guest commits a journal only when
\* its claimed output root is not zero, and at most one journal per run;
\* run_native_client returns Ok only when the boot claim is the computed
\* output, if one was computed, and the zero hash if the data as of the L1
\* head was insufficient.
C34_PrematurityUnprovable ==
    /\ Len(g_committed) <= 1
    /\ \A i \in 1..Len(g_committed) :
          /\ ~g_committed[i].claimed_is_zero
          /\ g_committed[i] = g_journal
    /\ g_pc = "panic_premature" => g_committed = <<>>
    /\ (g_pc = "done") <=> (g_committed # <<>>)
    /\ t_pc \in {"journal", "returned"} /\ t_result.tag # "Err" =>
          IF t_computed.some
          THEN t_boot.claimed_l2_output_root = t_computed.hash
          ELSE t_boot.claimed_l2_output_root = 0
    /\ t_result.tag = "Ok" => t_pc = "returned" /\ t_result.proof = t_boot

\* a native run succeeded on a zero claim, no output being computable
C34_Witness ==
    /\ t_result.tag = "Ok"
    /\ ~t_computed.some
    /\ t_boot.claimed_l2_output_root = 0

(***************************************************************************)
(* Claims about the payload preflight.                                     *)
(***************************************************************************)
\* the blocks whose payload the loop has dealt with or is dealing with
Walked == (y_boot.claimed_l2_block_number + 1)..y_start

\* the processed marker of a block's payload is in the store
Marked(kv, block) == KvHas(kv, "GlobalGeneric", Invert(OutputAtBlock(block - 1)))

\* the positions of the requests made for a block
Attempts(block) == {k \in 1..Len(y_requests) : y_requests[k].block = block}

\* the preimages of a block's execution witness are in the store
PreimagesStored(kv, block) ==
    LET entries == DumpPayloadToKvStore(ExecutionWitness(block))
    IN  \A k \in 1..Len(entries) : entries[k] \in kv

\* a block was already marked, or its witness was fetched within the
\* attempts allowed and stored
C33_Processed(block) ==
    /\ Marked(y_kv, block)
    /\ \/ Attempts(block) = {}
       \/ /\ Cardinality(Attempts(block)) <= PayloadRetries
          /\ \A k \in Attempts(block) :
                y_requests[k].ok <=> (\A l \in Attempts(block) : l <= k)
          /\ PreimagesStored(y_kv, block)

\* C33: run_payload_client returns Ok(true) only with every block from the
\* claimed one down to the first after the agreed output processed, each
\* already marked or fetched within five attempts and stored; it returns
\* Ok(false) at once when the fifth attempt for a block failed, that block
\* staying unmarked; no block is requested a sixth time.
C33_PreflightOutcome ==
    /\ [](\A b \in 1..(MaxHeight + 1) : Cardinality(Attempts(b)) <= PayloadRetries)
    /\ []((y_result.tag = "Ok" /\ y_result.proof) =>
            /\ y_boot.claimed_l2_output_root = y_boot.agreed_l2_output_root
            /\ \A b \in Walked : C33_Processed(b))
    /\ []((y_result.tag = "Ok" /\ ~y_result.proof) =>
            LET b == y_boot.claimed_l2_block_number + 1 IN
            /\ Cardinality(Attempts(b)) = PayloadRetries
            /\ \A k \in Attempts(b) : ~y_requests[k].ok
            /\ ~Marked(y_kv, b)
            /\ \A w \in Walked : w # b => C33_Processed(w))
    /\ [](y_pc = "while" => \A b \in Walked : C33_Processed(b))
    /\ [][(/\ y_pc = "attempt"
           /\ ~y_requests'[Len(y_requests')].ok
           /\ Len(y_requests') >= PayloadRetries
           /\ \A k \in (Len(y_requests') - PayloadRetries + 1)..Len(y_requests') :
                 y_requests'[k].block = y_boot.claimed_l2_block_number + 1)
          => (y_result' = Ok(FALSE) /\ y_pc' = "returned" /\ y_kv' = y_kv)]_payloadVars

\* Ok(true) was returned after one block was found marked and another was
\* fetched at the fifth attempt
C33_Witness ==
    /\ y_result = Ok(TRUE)
    /\ \E b \in Walked : Cardinality(Attempts(b)) = PayloadRetries
    /\ \E b \in Walked : Attempts(b) = {}

\* C39: a processed marker is set only by the store step and together with
\* the preimages of the block's witness, so that a marker in the store
\* implies these preimages are in it; a block whose marker is in the store
\* is not requested; every preimage stored is keyed by the keccak256 of its
\* bytes.
C39_MarkerAfterPreimages ==
    /\ [](\A b \in 1..MaxHeight : Marked(y_kv, b) => PreimagesStored(y_kv, b))
    /\ [](\A e \in y_kv : e.type = "Keccak256" => e.digest = Keccak256(e.value))
    /\ [][y_requests' # y_requests =>
             /\ ~Marked(y_kv, y_requests'[Len(y_requests')].block)
             /\ y_kv' = y_kv]_payloadVars
    /\ [][(\E e \in y_kv' \ y_kv : e.type = "GlobalGeneric") =>
             /\ y_pc = "store"
             /\ \A k \in 1..Len(DumpPayloadToKvStore(y_witness)) :
                   DumpPayloadToKvStore(y_witness)[k] \in y_kv'
             /\ Marked(y_kv', y_boot.claimed_l2_block_number + 1)]_payloadVars

\* the loop is back at its test having stored and marked one block's
\* witness and passed another block that an earlier run had marked
C39_Witness ==
    /\ y_pc = "while"
    /\ \E b \in Walked : Attempts(b) # {} /\ Marked(y_kv, b)
    /\ \E b \in Walked : Attempts(b) = {} /\ Marked(y_kv, b)

\* C40 (as stated): run_payload_client terminates without arithmetic
\* underflow, the claimed block number decreasing by one per iteration, for
\* every boot info and every sequence of outputs, also when no block's
\* output is the agreed root.
C40_NoUnderflow ==
    /\ y_pc # "panic_overflow"
    /\ y_boot.claimed_l2_block_number <= y_start

(***************************************************************************)
(* Specifications.                                                         *)
(***************************************************************************)
GuestNext ==
    \/ GuestReadFrame
    \/ GuestLoadShard
    \/ GuestShardsLoaded
    \/ RunStatelessClientValidate
    \/ StitchingServe
    \/ StitchingReturn
    \/ GuestCommit

ProveNext ==
    \/ Dispatch
    \/ ZkvmStart
    \/ ZkvmJoinError
    \/ ZkvmProveError
    \/ ZkvmProve
    \/ ZkvmVerify
    \/ BonsaiCallFails
    \/ BonsaiUploadImg
    \/ BonsaiUploadInput
    \/ BonsaiCreateSession
    \/ BonsaiPoll
    \/ BonsaiDownloadVerify
    \/ BonsaiCreateSnark
    \/ BonsaiSnarkPoll
    \/ BonsaiSnarkDownloadVerify
    \/ BoundlessCallFails
    \/ BoundlessStart
    \/ BoundlessLookback
    \/ BoundlessUpload
    \/ BoundlessSubmit
    \/ BoundlessFulfilled
    \/ PersistProof

HostNext ==
    \/ HostStepFails
    \/ HostFetchPrecondition
    \/ HostCountTransactions
    \/ HostCheckCache
    \/ HostTempDir
    \/ HostRollupConfig
    \/ HostPreflight
    \/ HostProve
    \/ HostReadProofFile

NameNext ==
    \/ ComputeFileNames

PoolNext ==
    \/ EnvSend
    \/ EnvClose
    \/ SpawnWorker
    \/ SpawnDone
    \/ GenRecv
    \/ GenRecvClosed
    \/ GenSend
    \/ GenClose
    \/ GenJoin
    \/ GenReturn
    \/ \E w \in 1..Len(q_worker) : WorkerRecv(w)
    \/ \E w \in 1..Len(q_worker) : WorkerExit(w)
    \/ \E w \in 1..Len(q_worker) : WorkerProved(w)
    \/ \E w \in 1..Len(q_worker) : WorkerFailed(w)

RequestNext ==
    \/ RequestFaultProof
    \/ RequestValidityProof

FaultNext ==
    \/ FaultPrepare
    \/ \E i \in 1..Len(f_tasks) : FetchTaskCompletes(i)
    \/ FaultJoin
    \/ FaultCheckCounter
    \/ FaultSubmit
    \/ OtherPropose

DeployNext ==
    \/ CheckProposalTime
    \/ ClockTick

ProviderNext ==
    \/ ReverseOnce
    \/ ReverseTwice
    \/ BlobFeProofCompute
    \/ BlobFeProofVerify

ChainNext ==
    \/ OracleL1ChainProviderNew
    \/ BlockInfoByNumber
    \/ BlockInfoWalk
    \/ BlockInfoExtend
    \/ HeaderByHash
    \/ HeaderByHashGet

StitchNext ==
    \/ BuildZkvmEnvLimit
    \/ ClientZkvmLimit
    \/ BuildZkvmEnv
    \/ ClientZkvmEnv
    \/ BonsaiStitch
    \/ StitchDone

ArchiveNext ==
    \/ SerializeWith
    \/ DeserializeWith

ComposeNext ==
    \/ ComposeSort
    \/ ComposeStitch
    \/ ComposeDone

PrematureNext ==
    \/ GuestReadFrame
    \/ GuestLoadShard
    \/ GuestShardsLoaded
    \/ RunStatelessClientValidate
    \/ StitchingServe
    \/ StitchingReturn
    \/ GuestCommit
    \/ NativeBootLoad
    \/ NativeRunClient
    \/ NativeCheckOutput
    \/ NativeReturn

PayloadNext ==
    \/ PayloadStart
    \/ PayloadWhile
    \/ PayloadOutput
    \/ PayloadAttempt
    \/ PayloadStore

InitGuest ==
    GuestInit /\ ProveIdle /\ HostIdle /\ NameIdle /\ PoolIdle /\ RequestIdle
    /\ FaultIdle /\ DeployIdle /\ ProviderIdle /\ ChainIdle /\ StitchIdle
    /\ ArchiveIdle /\ ComposeIdle /\ NativeIdle /\ PayloadIdle

SpecGuest == InitGuest /\ [][GuestNext]_vars

InitProve ==
    ProveInit /\ GuestIdle /\ HostIdle /\ NameIdle /\ PoolIdle /\ RequestIdle
    /\ FaultIdle /\ DeployIdle /\ ProviderIdle /\ ChainIdle /\ StitchIdle
    /\ ArchiveIdle /\ ComposeIdle /\ NativeIdle /\ PayloadIdle

SpecProve == InitProve /\ [][ProveNext]_vars

InitHost ==
    HostInit /\ GuestIdle /\ ProveIdle /\ NameIdle /\ PoolIdle /\ RequestIdle
    /\ FaultIdle /\ DeployIdle /\ ProviderIdle /\ ChainIdle /\ StitchIdle
    /\ ArchiveIdle /\ ComposeIdle /\ NativeIdle /\ PayloadIdle

SpecHost == InitHost /\ [][HostNext]_vars

InitName ==
    NameInit /\ GuestIdle /\ ProveIdle /\ HostIdle /\ PoolIdle /\ RequestIdle
    /\ FaultIdle /\ DeployIdle /\ ProviderIdle /\ ChainIdle /\ StitchIdle
    /\ ArchiveIdle /\ ComposeIdle /\ NativeIdle /\ PayloadIdle

SpecName == InitName /\ [][NameNext]_vars

InitPool ==
    PoolInit /\ GuestIdle /\ ProveIdle /\ HostIdle /\ NameIdle /\ RequestIdle
    /\ FaultIdle /\ DeployIdle /\ ProviderIdle /\ ChainIdle /\ StitchIdle
    /\ ArchiveIdle /\ ComposeIdle /\ NativeIdle /\ PayloadIdle

SpecPool == InitPool /\ [][PoolNext]_vars

InitRequest ==
    RequestInit /\ GuestIdle /\ ProveIdle /\ HostIdle /\ NameIdle /\ PoolIdle
    /\ FaultIdle /\ DeployIdle /\ ProviderIdle /\ ChainIdle /\ StitchIdle
    /\ ArchiveIdle /\ ComposeIdle /\ NativeIdle /\ PayloadIdle

SpecRequest == InitRequest /\ [][RequestNext]_vars

InitFault ==
    FaultInit /\ GuestIdle /\ ProveIdle /\ HostIdle /\ NameIdle /\ PoolIdle
    /\ RequestIdle /\ DeployIdle /\ ProviderIdle /\ ChainIdle /\ StitchIdle
    /\ ArchiveIdle /\ ComposeIdle /\ NativeIdle /\ PayloadIdle

SpecFault == InitFault /\ [][FaultNext]_vars

\* the runtime keeps polling fault(): a step of the search that can be taken
\* is taken
SpecFaultFair == SpecFault /\ WF_vars(FaultCheckCounter)

InitDeploy ==
    DeployInit /\ GuestIdle /\ ProveIdle /\ HostIdle /\ NameIdle /\ PoolIdle
    /\ RequestIdle /\ FaultIdle /\ ProviderIdle /\ ChainIdle /\ StitchIdle
    /\ ArchiveIdle /\ ComposeIdle /\ NativeIdle /\ PayloadIdle

SpecDeploy == InitDeploy /\ [][DeployNext]_vars

InitProvider ==
    ProviderInit /\ GuestIdle /\ ProveIdle /\ HostIdle /\ NameIdle /\ PoolIdle
    /\ RequestIdle /\ FaultIdle /\ DeployIdle /\ ChainIdle /\ StitchIdle
    /\ ArchiveIdle /\ ComposeIdle /\ NativeIdle /\ PayloadIdle

SpecProvider == InitProvider /\ [][ProviderNext]_vars

InitChain ==
    ChainInit /\ GuestIdle /\ ProveIdle /\ HostIdle /\ NameIdle /\ PoolIdle
    /\ RequestIdle /\ FaultIdle /\ DeployIdle /\ ProviderIdle /\ StitchIdle
    /\ ArchiveIdle /\ ComposeIdle /\ NativeIdle /\ PayloadIdle

SpecChain == InitChain /\ [][ChainNext]_vars

InitStitch ==
    StitchInit /\ GuestIdle /\ ProveIdle /\ HostIdle /\ NameIdle /\ PoolIdle
    /\ RequestIdle /\ FaultIdle /\ DeployIdle /\ ProviderIdle /\ ChainIdle
    /\ ArchiveIdle /\ ComposeIdle /\ NativeIdle /\ PayloadIdle

SpecStitch == InitStitch /\ [][StitchNext]_vars

InitArchive ==
    ArchiveInit /\ GuestIdle /\ ProveIdle /\ HostIdle /\ NameIdle /\ PoolIdle
    /\ RequestIdle /\ FaultIdle /\ DeployIdle /\ ProviderIdle /\ ChainIdle
    /\ StitchIdle /\ ComposeIdle /\ NativeIdle /\ PayloadIdle

SpecArchive == InitArchive /\ [][ArchiveNext]_vars

InitCompose ==
    ComposeInit /\ GuestIdle /\ ProveIdle /\ HostIdle /\ NameIdle /\ PoolIdle
    /\ RequestIdle /\ FaultIdle /\ DeployIdle /\ ProviderIdle /\ ChainIdle
    /\ StitchIdle /\ ArchiveIdle /\ NativeIdle /\ PayloadIdle

SpecCompose == InitCompose /\ [][ComposeNext]_vars

InitPremature ==
    PrematureInit /\ ProveIdle /\ HostIdle /\ NameIdle /\ PoolIdle
    /\ RequestIdle /\ FaultIdle /\ DeployIdle /\ ProviderIdle /\ ChainIdle
    /\ StitchIdle /\ ArchiveIdle /\ ComposeIdle /\ PayloadIdle

SpecPremature == InitPremature /\ [][PrematureNext]_vars

InitPayload ==
    PayloadInit /\ GuestIdle /\ ProveIdle /\ HostIdle /\ NameIdle /\ PoolIdle
    /\ RequestIdle /\ FaultIdle /\ DeployIdle /\ ProviderIdle /\ ChainIdle
    /\ StitchIdle /\ ArchiveIdle /\ ComposeIdle /\ NativeIdle

SpecPayload == InitPayload /\ [][PayloadNext]_vars

====
